---------------------------- MODULE Spec2Model ----------------------------
(***************************************************************************)
(* Tabu search engine: the segment-swap neighborhood of the path problem   *)
(* (tsp/neighborhoods/swap.py), the single-objective driver (tsp/abc.py)   *)
(* and the multi-objective driver (ts/abc/multi_ob/solutions.py).          *)
(*                                                                         *)
(* and the problem import of the drone delivery variant                    *)
(* (ts/d2d/solutions.py).                                                  *)
(*                                                                         *)
(* The specifications share the variables below; each one drives one part  *)
(* of the program and leaves the other parts' variables idle:              *)
(*   SpecSwap       Swap.swap applied to every enumerated move             *)
(*   SpecTabu       insertions into the neighborhood's tabu memory         *)
(*   SpecEnumerate  the enumeration loops of Swap.find_best_candidate      *)
(*   SpecShards     one round of shards evaluated by the worker pool       *)
(*   Spec           BaseSolution.tabu_search over Swap neighborhoods       *)
(*   SpecMO         MultiObjectiveSolution.tabu_search                     *)
(*   SpecFront      admissions into the Pareto front                       *)
(*   SpecDrivers    both drivers                                           *)
(*   SpecImport     D2DPathSolution.import_problem                         *)
(*   SpecInitial    D2DPathSolution.initial                                *)
(*   SpecIndicators the fronts and the hypervolume of scripts/d2d-summary  *)
(*   SpecSummary    the indicator columns scripts/d2d-summary.py reports   *)
(***************************************************************************)
EXTENDS Integers, Sequences, FiniteSets, TLC

(* ------------------------------ bounds --------------------------------- *)

\* Number of nodes of the path problem (solution.dimension).
Dimension == 5

Nodes == 0 .. (Dimension - 1)

VARIABLES
    distances,      \* class-level distance table, distances[i][j]
    neighborhood,   \* SpecSwap: the Swap instance (_solution, _first_length, _second_length)
    swap_arg,       \* SpecSwap: the move descriptor last handed to Swap.swap
    swapped,        \* SpecSwap: the solution Swap.swap returned for swap_arg
    maxlen,         \* Swap._maxlen: the capacity of the tabu memory
    tabu_list,      \* Swap._tabu_list: the descriptors, oldest first
    tabu_set,       \* Swap._tabu_set: the membership view
    inserted,       \* SpecTabu: every descriptor handed to add_to_tabu, in order
    config,         \* Spec: iterations_count, shuffle_after, os.cpu_count(), neighborhood lengths
    pc,             \* Spec: position of tabu_search ("search", "done")
    current,        \* Spec: tabu_search's `current`
    result,         \* Spec: tabu_search's `result`
    iteration,      \* Spec: the loop variable of tabu_search
    last_improved,  \* Spec: tabu_search's `last_improved`
    neighborhood_iterations, \* Spec: rounds drawn from the itertools.cycle so far
    round,          \* Spec: what the last find_best_candidate call saw and did
    held,           \* Spec: the costs of all solutions `current` has held
    results,        \* SpecMO: tabu_search's `results`, the Pareto front
    propagate,      \* SpecMO: tabu_search's `propagate`, the staged candidates
    pending,        \* SpecMO: candidates the neighborhoods still produce in this iteration
    considered,     \* SpecMO: candidates considered since the search began
    admission,      \* SpecMO: the last candidate considered and what became of it
    tail,           \* SpecMO: what the tail of the last iteration saw and did
    pool,           \* both drivers: the worker pool of `with Pool(...) as pool`
    returned,       \* both drivers: the value tabu_search returned
    initial,        \* both drivers: cls.initial()
    enumeration,    \* SpecEnumerate: the loops of find_best_candidate
    shards,         \* SpecShards: one round of shards in the worker pool
    class_state,    \* SpecImport: the class-level problem data of D2DPathSolution
    import_call,    \* SpecImport: the last import_problem call and its outcome
    construction,   \* SpecInitial: the loops of D2DPathSolution.initial()
    summary         \* SpecSummary: the indicator loops of scripts/d2d-summary.py

swapVars == << neighborhood, swap_arg, swapped >>
tabuVars == << maxlen, tabu_list, tabu_set, inserted >>
soVars == << config, pc, current, result, iteration, last_improved,
             neighborhood_iterations, round, held >>
moVars == << results, propagate, pending, considered, admission, tail >>
driverVars == << pool, returned, initial >>
enumVars == << enumeration, shards >>
importVars == << class_state, import_call, construction, summary >>

(* --------------------------- distance tables --------------------------- *)

\* A table that is 1 on the single ordered pair (a, b) and 0 elsewhere.  The
\* cost of a tour and the delta of a move are linear in the table, so these
\* tables decide an equality of the two for every table.
UnitDistances(a, b) ==
    [i \in Nodes |-> [j \in Nodes |-> IF i = a /\ j = b THEN 1 ELSE 0]]

\* A symmetric table on which different tours have different costs.
SquareDistances ==
    [i \in Nodes |-> [j \in Nodes |-> (i - j) * (i - j)]]

\* The symmetric table [[0,1,2,3],[1,0,4,5],[2,4,0,6],[3,5,6,0]], continued
\* to any dimension: every tour has the same cost on it.
ScenarioDistances ==
    [i \in Nodes |-> [j \in Nodes |->
        IF i = j THEN 0
        ELSE IF i = 0 THEN j
        ELSE IF j = 0 THEN i
        ELSE i + j + 1]]

SwapDistanceTables ==
    {UnitDistances(p[1], p[2]) : p \in {q \in Nodes \X Nodes : q[1] # q[2]}}
        \cup {SquareDistances, ScenarioDistances}

(* ------------------------------ PathSolution --------------------------- *)

\* A placeholder where no solution is held (Python's None).
None == [none |-> TRUE]

\* solution.path[k]: the k-th node met from node 0 along the `after` links.
RECURSIVE PathAt(_, _)
PathAt(after, k) == IF k = 0 THEN 0 ELSE after[PathAt(after, k - 1)]

\* The `before` array of a tour: the inverse of `after`.
BeforeOf(after) == [v \in Nodes |-> CHOOSE u \in Nodes : after[u] = v]

\* The cost of an encoding computed from scratch: the sum of the distances
\* along its `after` links.
RECURSIVE SumLinks(_, _, _)
SumLinks(table, after, k) ==
    IF k < 0 THEN 0
    ELSE table[k][after[k]] + SumLinks(table, after, k - 1)

FullCost(table, after) == SumLinks(table, after, Dimension - 1)

\* PathSolution(after=..., before=..., cost=...)
PathSolution(after, before, cost) ==
    [after |-> after, before |-> before, cost |-> cost]

\* The `after` array of the tour that visits the nodes in the order of
\* `path` (a function on 0 .. Dimension - 1).
AfterOfPath(path) ==
    [v \in Nodes |->
        LET k == CHOOSE i \in 0 .. (Dimension - 1) : path[i] = v
        IN  path[(k + 1) % Dimension]]

\* The tour with the nodes at path positions j and j + 1 exchanged.
Exchanged(after, j) ==
    AfterOfPath([k \in 0 .. (Dimension - 1) |->
        IF k = j THEN PathAt(after, j + 1)
        ELSE IF k = j + 1 THEN PathAt(after, j)
        ELSE PathAt(after, k)])

\* The tour 0, 1, ..., Dimension - 1.
IdentityTour == [v \in Nodes |-> (v + 1) % Dimension]

\* The tours a search starts from: the identity tour and the tours that
\* differ from it in the order of two neighbouring stops.  Every tour is one
\* of these up to a renaming of the nodes.
InitialTours ==
    {IdentityTour} \cup {Exchanged(IdentityTour, j) : j \in 1 .. (Dimension - 2)}

\* A solution built from an encoding alone: its cost is computed from scratch.
SolutionOf(table, after) ==
    PathSolution(after, BeforeOf(after), FullCost(table, after))

(* --------------------------------- Swap -------------------------------- *)

\* Swap.swap, after the exchange of the two segments' roles (lines 45-82).
SwapOrdered(table, solution, first_head, first_tail, second_head, second_tail) ==
    LET before == solution.before
        after == solution.after
    IN  IF first_tail = before[second_head]
        THEN LET before_first == before[first_head]
                 after_second == after[second_tail]
                 cost == solution.cost
                         + table[before_first][second_head]
                         + table[second_tail][first_head]
                         + table[first_tail][after_second]
                         - table[before_first][first_head]
                         - table[first_tail][second_head]
                         - table[second_tail][after_second]
                 after1 == [after EXCEPT ![before_first] = second_head]
                 before1 == [before EXCEPT ![second_head] = before_first]
                 after2 == [after1 EXCEPT ![second_tail] = first_head]
                 before2 == [before1 EXCEPT ![first_head] = second_tail]
                 after3 == [after2 EXCEPT ![first_tail] = after_second]
                 before3 == [before2 EXCEPT ![after_second] = first_tail]
             IN  PathSolution(after3, before3, cost)
        ELSE LET before_first == before[first_head]
                 before_second == before[second_head]
                 after_first == after[first_tail]
                 after_second == after[second_tail]
                 cost == solution.cost
                         + table[before_first][second_head]
                         + table[second_tail][after_first]
                         + table[before_second][first_head]
                         + table[first_tail][after_second]
                         - table[before_first][first_head]
                         - table[first_tail][after_first]
                         - table[before_second][second_head]
                         - table[second_tail][after_second]
                 after1 == [after EXCEPT ![before_first] = second_head]
                 before1 == [before EXCEPT ![second_head] = before_first]
                 after2 == [after1 EXCEPT ![before_second] = first_head]
                 before2 == [before1 EXCEPT ![first_head] = before_second]
                 after3 == [after2 EXCEPT ![second_tail] = after_first]
                 before3 == [before2 EXCEPT ![after_first] = second_tail]
                 after4 == [after3 EXCEPT ![first_tail] = after_second]
                 before4 == [before3 EXCEPT ![after_second] = first_tail]
             IN  PathSolution(after4, before4, cost)

\* Swap.swap(first_head, first_tail, second_head, second_tail)
Swap(table, solution, arg) ==
    IF arg[1] = solution.after[arg[4]]
    THEN SwapOrdered(table, solution, arg[3], arg[4], arg[1], arg[2])
    ELSE SwapOrdered(table, solution, arg[1], arg[2], arg[3], arg[4])

\* range(solution.dimension - first_length - second_length + 1): the number
\* of separations d tried for each first_head_index.
Separations(first_length, second_length) ==
    IF Dimension - first_length - second_length + 1 > 0
    THEN Dimension - first_length - second_length + 1
    ELSE 0

\* The number of moves the two nested loops of find_best_candidate enumerate.
MovesCount(first_length, second_length) ==
    Dimension * Separations(first_length, second_length)

\* The descriptor built for (first_head_index, d) (lines 92-104).
MoveArg(solution, first_length, second_length, first_head_index, d) ==
    LET first_tail_index == (first_head_index + first_length - 1) % Dimension
        second_head_index == (first_tail_index + d + 1) % Dimension
        second_tail_index == (second_head_index + second_length - 1) % Dimension
    IN  << PathAt(solution.after, first_head_index),
           PathAt(solution.after, first_tail_index),
           PathAt(solution.after, second_head_index),
           PathAt(solution.after, second_tail_index) >>

\* The k-th enumerated move, k = 0, 1, ...: ascending first_head_index, then
\* ascending d.
EnumeratedMove(solution, first_length, second_length, k) ==
    LET w == Separations(first_length, second_length)
    IN  MoveArg(solution, first_length, second_length, k \div w, k % w)

(* ------------------------------ tabu memory ---------------------------- *)

\* Largest capacity tried for the tabu memory on its own.
MaxCapacity == 2

\* Most insertions made into the tabu memory on its own.
MaxInsertions == 4

\* Swap._maxlen
Swap_maxlen == 100

\* Swap._tabu_list and Swap._tabu_set as the class body creates them.
EmptyTabu == [list |-> << >>, set |-> {}]

\* add_to_tabu(target): append to the sequence and add to the set; beyond the
\* capacity the oldest entry leaves both views.
AddToTabu(tabu, capacity, target) ==
    LET list == Append(tabu.list, target)
        set == tabu.set \cup {target}
    IN  IF Len(list) > capacity
        THEN [list |-> Tail(list), set |-> set \ {Head(list)}]
        ELSE [list |-> list, set |-> set]

\* The end of find_best_candidate: `if min_swap is not None:
\* self.add_to_tabu(min_swap)`, skipping the call (a mutation).
RecordMinSwapNever(tabu, capacity, min_swap) == tabu

\* The end of find_best_candidate without the test of min_swap (a mutation:
\* add_to_tabu called with whatever min_swap holds).
RecordMinSwapAlways(tabu, capacity, min_swap) ==
    AddToTabu(tabu, capacity, min_swap)

\* The end of find_best_candidate: `if min_swap is not None:
\* self.add_to_tabu(min_swap)`.
RecordMinSwap(tabu, capacity, min_swap) ==
    IF min_swap # None THEN AddToTabu(tabu, capacity, min_swap) ELSE tabu

(* ------------------------- find_best_candidate ------------------------- *)

\* A Swap instance bound to a solution.
SwapNeighborhood(solution, first_length, second_length) ==
    [solution |-> solution,
     first_length |-> first_length,
     second_length |-> second_length]

\* The k-th move the instance enumerates.
Move(nb, k) ==
    EnumeratedMove(nb.solution, nb.first_length, nb.second_length, k)

Moves(nb) == MovesCount(nb.first_length, nb.second_length)

\* args[s].data after the enumeration: itertools.cycle(range(concurrency))
\* hands the k-th move to bundle k mod concurrency.
BundleData(nb, s, concurrency) ==
    LET n == IF Moves(nb) > s
             THEN (Moves(nb) - s + concurrency - 1) \div concurrency
             ELSE 0
    IN  [j \in 1 .. n |-> Move(nb, s + (j - 1) * concurrency)]

\* BaseSolution.__lt__: ordering by cost.
Less(a, b) == a.cost < b.cost

\* The (result, min_swap) pair with nothing found yet.
NoCandidate == [result |-> None, min_swap |-> None]

\* The loop of static_find_best_candidate from the j-th entry of bundle.data.
RECURSIVE StaticScan(_, _, _, _, _)
StaticScan(table, nb, data, j, best) ==
    IF j > Len(data) THEN best
    ELSE LET swapped_j == Swap(table, nb.solution, data[j])
         IN  IF best.result = None \/ Less(swapped_j, best.result)
             THEN StaticScan(table, nb, data, j + 1,
                             [result |-> swapped_j, min_swap |-> data[j]])
             ELSE StaticScan(table, nb, data, j + 1, best)

\* Swap.static_find_best_candidate(bundle)
StaticFindBestCandidate(table, nb, data) ==
    StaticScan(table, nb, data, 1, NoCandidate)

\* The reduction keeping the descriptor of the last shard that returned one
\* (a mutation: min_swap assigned outside the comparison).
RECURSIVE ReduceScanLastSwap(_, _, _, _, _)
ReduceScanLastSwap(table, nb, concurrency, s, best) ==
    IF s >= concurrency THEN best
    ELSE LET temp == StaticFindBestCandidate(
                         table, nb, BundleData(nb, s, concurrency))
         IN  IF temp.result = None \/ temp.min_swap = None
             THEN ReduceScanLastSwap(table, nb, concurrency, s + 1, best)
             ELSE IF best.result = None \/ Less(temp.result, best.result)
             THEN ReduceScanLastSwap(table, nb, concurrency, s + 1, temp)
             ELSE ReduceScanLastSwap(table, nb, concurrency, s + 1,
                      [result |-> best.result, min_swap |-> temp.min_swap])

\* The reduction that keeps the later shard's candidate on equal cost or
\* better, never comparing with the first shard's (a mutation: the
\* comparison reversed).
RECURSIVE ReduceScanWorst(_, _, _, _, _)
ReduceScanWorst(table, nb, concurrency, s, best) ==
    IF s >= concurrency THEN best
    ELSE LET temp == StaticFindBestCandidate(
                         table, nb, BundleData(nb, s, concurrency))
         IN  IF temp.result = None \/ temp.min_swap = None
             THEN ReduceScanWorst(table, nb, concurrency, s + 1, best)
             ELSE IF best.result = None \/ Less(best.result, temp.result)
             THEN ReduceScanWorst(table, nb, concurrency, s + 1, temp)
             ELSE ReduceScanWorst(table, nb, concurrency, s + 1, best)

\* The loop over pool.map(self.static_find_best_candidate, args) from shard s
\* on; pool.map returns the shards' results in the order of args.
RECURSIVE ReduceScan(_, _, _, _, _)
ReduceScan(table, nb, concurrency, s, best) ==
    IF s >= concurrency THEN best
    ELSE LET temp == StaticFindBestCandidate(
                         table, nb, BundleData(nb, s, concurrency))
         IN  IF temp.result = None \/ temp.min_swap = None
             THEN ReduceScan(table, nb, concurrency, s + 1, best)
             ELSE IF best.result = None \/ Less(temp.result, best.result)
             THEN ReduceScan(table, nb, concurrency, s + 1, temp)
             ELSE ReduceScan(table, nb, concurrency, s + 1, best)

\* find_best_candidate with the mutated reductions above.
FindBestCandidateLastSwap(table, nb, concurrency) ==
    ReduceScanLastSwap(table, nb, concurrency, 0, NoCandidate)

FindBestCandidateWorst(table, nb, concurrency) ==
    ReduceScanWorst(table, nb, concurrency, 0, NoCandidate)

\* Swap.find_best_candidate up to the recording of min_swap: the candidate
\* returned and the descriptor to record.
FindBestCandidate(table, nb, concurrency) ==
    ReduceScan(table, nb, concurrency, 0, NoCandidate)

(* ----------------------- BaseSolution.tabu_search ---------------------- *)

\* Largest iterations_count tried.
MaxIterations == 2

\* Largest os.cpu_count() tried.
MaxConcurrency == 3

\* Largest shuffle_after tried.
MaxShuffleAfter == 2

\* The (first_length, second_length) pairs of the Swap neighborhoods that
\* get_neighborhoods returns, in order.  The last list ends with a
\* neighborhood that has no feasible move.
NeighborhoodLengths ==
    { << <<1, 1>> >>,
      << <<1, 1>>, <<2, 1>> >>,
      << <<1, 1>>, <<Dimension - 1, 2>> >> }

\* solution.get_neighborhoods()
GetNeighborhoods(solution, lengths) ==
    [i \in 1 .. Len(lengths) |->
        SwapNeighborhood(solution, lengths[i][1], lengths[i][2])]

\* solution.shuffle(): the solution itself (the default implementation) or a
\* random perturbation of it, here an exchange of two neighbouring stops.
Shuffle(table, solution) ==
    {solution} \cup
    {SolutionOf(table, Exchanged(solution.after, j)) : j \in 1 .. (Dimension - 2)}

\* `result = current` in place of line 81 (a mutation).
MinSecond(a, b) == b

\* min(result, current): Python's min keeps the first of two equal arguments.
Min(a, b) == IF Less(b, a) THEN b ELSE a

\* BaseSolution.post_optimization: the default returns the solution itself.
PostOptimization(solution) == solution

\* The worker pool before `with Pool() as pool` is entered.
NoPool ==
    [state |-> "unopened", acquired |-> 0, released |-> 0, late |-> 0]

\* Entering `with Pool() as pool`: the pool is created.
EnterPool(p) ==
    [state |-> "open", acquired |-> p.acquired + 1, released |-> p.released,
     late |-> p.late]

\* Leaving the `with` block without releasing the pool (a mutation: the
\* pool created by a plain assignment instead of a `with` statement).
ExitPoolLeaking(p) == p

\* Leaving the `with` block by any path (end of the loop, `break`, an
\* exception): Pool.__exit__ terminates the pool.
ExitPool(p) ==
    [state |-> "closed", acquired |-> p.acquired, released |-> p.released + 1,
     late |-> p.late]

\* `calls` calls are handed the pool p: those made when the pool is no
\* longer open are counted in `late`.
HandPool(p, calls) ==
    IF p.state = "open" THEN p ELSE [p EXCEPT !.late = @ + calls]

\* The variables of the parts a specification does not drive.
IdleDriver == pool = NoPool /\ returned = None /\ initial = None

IdleEnumeration == enumeration = None /\ shards = None

IdleImport ==
    /\ class_state = None
    /\ import_call = None
    /\ construction = None
    /\ summary = None

\* The reduction over the shards outside `faulty` only (used by the
\* mutation below).
RECURSIVE ReduceScanSkipping(_, _, _, _, _, _)
ReduceScanSkipping(table, nb, concurrency, faulty, s, best) ==
    IF s >= concurrency THEN best
    ELSE IF s \in faulty
    THEN ReduceScanSkipping(table, nb, concurrency, faulty, s + 1, best)
    ELSE LET temp == StaticFindBestCandidate(
                         table, nb, BundleData(nb, s, concurrency))
         IN  IF temp.result = None \/ temp.min_swap = None
             THEN ReduceScanSkipping(table, nb, concurrency, faulty, s + 1, best)
             ELSE IF best.result = None \/ Less(temp.result, best.result)
             THEN ReduceScanSkipping(table, nb, concurrency, faulty, s + 1, temp)
             ELSE ReduceScanSkipping(table, nb, concurrency, faulty, s + 1, best)

\* find_best_candidate reducing the results of the shards that succeeded
\* and recording the best of them before the exception leaves (a mutation:
\* the shards' exceptions caught one by one).
FindBestCandidateSalvaging(table, nb, concurrency, faulty, tabu, capacity) ==
    LET best == ReduceScanSkipping(table, nb, concurrency, faulty, 0, NoCandidate)
    IN  [raised |-> TRUE, result |-> best.result,
         tabu |-> RecordMinSwap(tabu, capacity, best.min_swap)]

\* find_best_candidate when the evaluation of the shards in `faulty` (not
\* empty) raises: pool.map raises at line 109 in place of its results, so
\* the reduction and the recording (lines 110-120) are skipped and the
\* exception leaves the call.
FindBestCandidateFaulted(table, nb, concurrency, faulty, tabu, capacity) ==
    [raised |-> TRUE, result |-> None, tabu |-> tabu]

\* Lines 74-75 with the `break` placed after line 81 (a mutation).
AfterNoCandidateFolding(cur, res) ==
    [current |-> cur, result |-> Min(res, cur)]

\* Lines 74-75: `if best_candidate is None: break` leaves the loop before
\* lines 77-84 touch `current` and `result`.
AfterNoCandidate(cur, res) == [current |-> cur, result |-> res]

\* The record of a find_best_candidate call before any has been made.
NoRound ==
    [valid |-> FALSE, neighborhood |-> None, candidate |-> None,
     min_swap |-> None, tabu_before |-> EmptyTabu, current_before |-> None,
     result_before |-> None, adopted |-> FALSE, raised |-> FALSE,
     shuffled |-> FALSE, call |-> 0, iteration |-> 0, last_adopted |-> 0,
     pool |-> NoPool]

InitSearch ==
    /\ distances \in {SquareDistances, ScenarioDistances}
    /\ config \in [iterations_count : 1 .. MaxIterations,
                   shuffle_after : 0 .. MaxShuffleAfter,
                   concurrency : 1 .. MaxConcurrency,
                   lengths : NeighborhoodLengths]
    /\ \E after \in InitialTours : current = SolutionOf(distances, after)
    /\ result = current
    /\ initial = current
    /\ held = {current.cost}
    /\ pc = "start"
    /\ pool = NoPool
    /\ returned = None
    /\ iteration = 0
    /\ last_improved = 0
    /\ neighborhood_iterations = 0
    /\ round = NoRound
    /\ maxlen = Swap_maxlen
    /\ tabu_list = EmptyTabu.list
    /\ tabu_set = EmptyTabu.set
    /\ inserted = << >>
    /\ neighborhood = None
    /\ swap_arg = << >>
    /\ swapped = None
    /\ results = {}
    /\ propagate = << >>
    /\ pending = 0
    /\ considered = 0
    /\ admission = None
    /\ tail = None
    /\ IdleEnumeration
    /\ IdleImport

\* Lines 67-69: `with Pool() as pool`, then the loop begins.
Enter ==
    /\ pc = "start"
    /\ pool' = EnterPool(pool)
    /\ pc' = "search"
    /\ UNCHANGED << distances, config, current, result, iteration,
                    last_improved, neighborhood_iterations, round, held,
                    returned, initial, tabuVars, swapVars, moVars, enumVars,
                    importVars >>

\* The neighborhood the next iteration asks: neighborhoods[next(neighborhood_iterations)].
NextNeighborhood ==
    LET neighborhoods == GetNeighborhoods(current, config.lengths)
    IN  neighborhoods[(neighborhood_iterations % Len(neighborhoods)) + 1]

\* What the call of find_best_candidate in the next iteration returns and
\* records.
RoundOf(nb, best) ==
    [valid |-> TRUE, neighborhood |-> nb, candidate |-> best.result,
     min_swap |-> best.min_swap,
     tabu_before |-> [list |-> tabu_list, set |-> tabu_set],
     current_before |-> current, result_before |-> result,
     adopted |-> best.result # None /\ Less(best.result, current),
     raised |-> FALSE,
     shuffled |-> FALSE,
     call |-> neighborhood_iterations,
     iteration |-> iteration,
     pool |-> HandPool(pool, 1),
     last_adopted |-> IF best.result # None /\ Less(best.result, current)
                      THEN iteration ELSE round.last_adopted]

\* A loop that runs once more than the budget (a mutation:
\* range(iterations_count + 1)).
BudgetLeftInclusive(index, iterations_count) == index <= iterations_count

\* `for iteration in range(iterations_count)` has a value left for the
\* iteration with this index.
BudgetLeft(index, iterations_count) == index < iterations_count

\* The test of line 83 with > in place of >= (a mutation).
ShuffleDueLate(index, improved, shuffle_after) ==
    index - improved > shuffle_after

\* The test of line 83: iteration - last_improved >= shuffle_after.
ShuffleDue(index, improved, shuffle_after) ==
    index - improved >= shuffle_after

\* One iteration of the loop in which the neighborhood returns a candidate
\* (lines 71-84).
Iterate ==
    /\ pc = "search"
    /\ BudgetLeft(iteration, config.iterations_count)
    /\ \E nb \in {NextNeighborhood} :
       \E best \in {FindBestCandidate(distances, nb, config.concurrency)} :
       LET tabu == RecordMinSwap([list |-> tabu_list, set |-> tabu_set],
                                 maxlen, best.min_swap)
           adopted == Less(best.result, current)
           walked == IF adopted THEN best.result ELSE current
           improved == IF adopted THEN iteration ELSE last_improved
           due == ShuffleDue(iteration, improved, config.shuffle_after)
       IN  /\ best.result # None
           /\ round' = [RoundOf(nb, best) EXCEPT !.shuffled = due]
           /\ tabu_list' = tabu.list
           /\ tabu_set' = tabu.set
           /\ last_improved' = improved
           /\ result' = Min(result, walked)
           /\ IF due
              THEN current' \in Shuffle(distances, walked)
              ELSE current' = walked
           /\ held' = held \cup {walked.cost, current'.cost}
    /\ neighborhood_iterations' = neighborhood_iterations + 1
    /\ iteration' = iteration + 1
    /\ UNCHANGED << distances, config, pc, maxlen, inserted, swapVars, moVars,
                    driverVars, enumVars, importVars >>

\* The iteration in which the neighborhood returns None: `break`, then
\* `return result.post_optimization()`.
Starve ==
    /\ pc = "search"
    /\ BudgetLeft(iteration, config.iterations_count)
    /\ \E nb \in {NextNeighborhood} :
       \E best \in {FindBestCandidate(distances, nb, config.concurrency)} :
       LET tabu == RecordMinSwap([list |-> tabu_list, set |-> tabu_set],
                                 maxlen, best.min_swap)
           after == AfterNoCandidate(current, result)
       IN  /\ best.result = None
           /\ round' = RoundOf(nb, best)
           /\ tabu_list' = tabu.list
           /\ tabu_set' = tabu.set
           /\ current' = after.current
           /\ result' = after.result
           /\ returned' = PostOptimization(after.result)
    /\ neighborhood_iterations' = neighborhood_iterations + 1
    /\ pool' = ExitPool(pool)
    /\ pc' = "done"
    /\ UNCHANGED << distances, config, iteration, last_improved, held, maxlen,
                    inserted, initial, swapVars, moVars, enumVars, importVars >>

\* The iteration in which the evaluation of a shard raises: the exception
\* leaves find_best_candidate, the loop and the `with` block.
Fault ==
    /\ pc = "search"
    /\ BudgetLeft(iteration, config.iterations_count)
    /\ \E nb \in {NextNeighborhood} :
       \E faulty \in (SUBSET (0 .. (config.concurrency - 1))) \ {{}} :
       LET call == FindBestCandidateFaulted(
                       distances, nb, config.concurrency, faulty,
                       [list |-> tabu_list, set |-> tabu_set], maxlen)
       IN  /\ round' = [RoundOf(nb, [result |-> call.result,
                                     min_swap |-> None])
                            EXCEPT !.raised = call.raised]
           /\ tabu_list' = call.tabu.list
           /\ tabu_set' = call.tabu.set
    /\ neighborhood_iterations' = neighborhood_iterations + 1
    /\ pool' = ExitPool(pool)
    /\ pc' = "aborted"
    /\ UNCHANGED << distances, config, current, result, iteration,
                    last_improved, held, maxlen, inserted, returned, initial,
                    swapVars, moVars, enumVars, importVars >>

\* The iteration budget is exhausted: `return result.post_optimization()`.
Finish ==
    /\ pc = "search"
    /\ iteration = config.iterations_count
    /\ pool' = ExitPool(pool)
    /\ returned' = PostOptimization(result)
    /\ pc' = "done"
    /\ UNCHANGED << distances, config, current, result, iteration,
                    last_improved, neighborhood_iterations, round, held,
                    initial, tabuVars, swapVars, moVars, enumVars,
                    importVars >>

vars == << distances, swapVars, tabuVars, soVars, moVars, driverVars,
          enumVars, importVars >>

Next == Enter \/ Iterate \/ Starve \/ Fault \/ Finish

Spec == InitSearch /\ [][Next]_vars

\* C3: when the driver is done, `result` has the minimum cost among all the
\* solutions `current` has held, the initial one and every shuffled one
\* included.
C3_ResultIsBestHeld ==
    pc = "done" => \A c \in held : result.cost <= c

\* C6: find_best_candidate never returns a candidate made by a descriptor
\* that is in the tabu memory, unless the candidate improves on the best
\* solution known.
C6_TabuExclusion ==
    (round.valid /\ round.candidate # None)
    => \/ round.min_swap \notin round.tabu_before.set
       \/ Less(round.candidate, round.result_before)

\* C7 as claimed: a descriptor recorded in a round is the descriptor of the
\* candidate the driver adopts as `current` in that round.
C7_RecordedIsAdopted ==
    (round.valid /\ tabu_list # round.tabu_before.list) => round.adopted

\* C7 as amended: a round records at most one descriptor, and it is the
\* descriptor of the candidate find_best_candidate returns in that round,
\* whether or not the driver adopts that candidate; a round without a
\* candidate records nothing.
C7_RecordedIsReturned ==
    round.valid =>
        IF round.candidate = None
        THEN /\ tabu_list = round.tabu_before.list
             /\ tabu_set = round.tabu_before.set
        ELSE LET n == Len(round.tabu_before.list)
             IN  /\ Len(tabu_list) = n + 1
                 /\ SubSeq(tabu_list, 1, n) = round.tabu_before.list
                 /\ tabu_set = round.tabu_before.set \cup {tabu_list[n + 1]}
                 /\ Swap(distances, round.current_before, tabu_list[n + 1])
                        = round.candidate

\* A round recorded the descriptor of a candidate the driver did not adopt.
C7_Witness ==
    /\ round.valid
    /\ round.candidate # None
    /\ ~round.adopted
    /\ Len(tabu_list) = Len(round.tabu_before.list) + 1

\* C8: for every number of shards and every non-empty enumeration, the
\* candidate returned costs no more than the solution of any enumerated
\* move, and the descriptor recorded in the tabu memory is the one that
\* made the returned candidate.
C8_ReturnedIsMinimal ==
    (round.valid /\ ~round.raised /\ Moves(round.neighborhood) > 0)
    => /\ round.candidate # None
       /\ \A k \in 0 .. (Moves(round.neighborhood) - 1) :
             round.candidate.cost
                 <= Swap(distances, round.neighborhood.solution,
                         Move(round.neighborhood, k)).cost
       /\ tabu_list # << >>
       /\ tabu_list[Len(tabu_list)] \in tabu_set
       /\ Swap(distances, round.neighborhood.solution,
               tabu_list[Len(tabu_list)]) = round.candidate

\* A round over several shards in which the enumerated moves differ in cost.
C8_Witness ==
    /\ round.valid
    /\ config.concurrency >= 2
    /\ round.candidate # None
    /\ \E k \in 0 .. (Moves(round.neighborhood) - 1) :
          round.candidate.cost
              < Swap(distances, round.neighborhood.solution,
                     Move(round.neighborhood, k)).cost

\* The index of the first enumerated move of minimal cost.
FirstMinimal(table, nb) ==
    LET cost(k) == Swap(table, nb.solution, Move(nb, k)).cost
        all == 0 .. (Moves(nb) - 1)
    IN  CHOOSE k \in all :
            /\ \A j \in all : cost(k) <= cost(j)
            /\ \A j \in all : j < k => cost(k) < cost(j)

\* C9: among the enumerated moves of minimal cost, find_best_candidate
\* returns and records the first in the enumeration order, whatever the
\* number of shards.
C9_TieBrokenByEnumerationOrder ==
    (round.valid /\ round.candidate # None)
    => round.min_swap
           = Move(round.neighborhood,
                  FirstMinimal(distances, round.neighborhood))

\* C13: when the evaluation of a shard raises, the round yields no
\* candidate, the tabu memory is as it was before the round, the driver
\* ends with the exception and returns nothing, `current` and `result` are
\* untouched, and find_best_candidate is not called again.
C13_ShardFaultAbortsSearch ==
    round.raised =>
        /\ round.candidate = None
        /\ tabu_list = round.tabu_before.list
        /\ tabu_set = round.tabu_before.set
        /\ pc = "aborted"
        /\ returned = None
        /\ current = round.current_before
        /\ result = round.result_before
        /\ neighborhood_iterations = round.call + 1

\* A round over several shards, with moves to evaluate and a tabu memory
\* that already holds a descriptor, in which a shard raised.
C13_Witness ==
    /\ round.raised
    /\ config.concurrency >= 2
    /\ Moves(round.neighborhood) > 0
    /\ round.tabu_before.list # << >>

\* C15: the first round that returns no candidate ends the search: no
\* neighborhood is asked after it, `current` and `result` are what they
\* were before that round, nothing is shuffled, and the value returned is
\* the post-optimization of that `result`.
C15_NoCandidateEndsSearch ==
    (round.valid /\ ~round.raised /\ round.candidate = None) =>
        /\ pc = "done"
        /\ neighborhood_iterations = round.call + 1
        /\ ~round.shuffled
        /\ current = round.current_before
        /\ result = round.result_before
        /\ returned = PostOptimization(round.result_before)

\* A search ended by a round without a candidate while `current`, left by
\* a shuffle, costs less than `result`.
C15_Witness ==
    /\ round.valid
    /\ ~round.raised
    /\ round.candidate = None
    /\ pc = "done"
    /\ Less(current, result)

\* C16: the cost of `result` is never above the cost of initial() and
\* never above its cost before the last round; after a round with a
\* candidate, `result` is the better of the previous `result` and the
\* solution the walk is at before the shuffle step, so the shuffle changes
\* `current` only.
C16_ResultNeverWorsens ==
    /\ result.cost <= initial.cost
    /\ round.valid => result.cost <= round.result_before.cost
    /\ (round.valid /\ round.candidate # None) =>
          LET walked == IF round.adopted THEN round.candidate
                        ELSE round.current_before
          IN  result = IF walked.cost < round.result_before.cost
                       THEN walked
                       ELSE round.result_before

\* A round whose shuffle step left a `current` that costs more than the
\* solution the walk was at, and that adopted a candidate.
C16_Witness ==
    /\ round.valid
    /\ round.shuffled
    /\ round.adopted
    /\ round.candidate.cost < current.cost
    /\ result = round.candidate

\* C26: at the end of an iteration (one whose neighborhood returned a
\* candidate) `current` is replaced by a shuffle of itself if and only if
\* the iteration's index minus the index of the most recent iteration that
\* adopted a candidate (0 when none did) is >= shuffle_after; the shuffle
\* leaves last_improved alone; and `current` is the candidate only when the
\* candidate costs strictly less than the previous `current`, is otherwise
\* the previous `current`, or is a shuffle of that solution.  A round
\* without a candidate leaves `current` as it was.
C26_ShuffleIffStagnant ==
    /\ last_improved = round.last_adopted
    /\ (round.valid /\ round.candidate = None) =>
           /\ current = round.current_before
           /\ ~round.shuffled
    /\ (round.valid /\ round.candidate # None) =>
           LET walked == IF round.adopted THEN round.candidate
                         ELSE round.current_before
           IN  /\ round.shuffled <=>
                      round.iteration - round.last_adopted
                          >= config.shuffle_after
               /\ round.adopted <=>
                      round.candidate.cost < round.current_before.cost
               /\ round.shuffled => current \in Shuffle(distances, walked)
               /\ ~round.shuffled => current = walked

\* The second iteration shuffled because the only adoption was in the
\* iteration before it and shuffle_after is 1.
C26_Witness ==
    /\ round.valid
    /\ round.candidate # None
    /\ round.iteration = 1
    /\ round.last_adopted = 0
    /\ ~round.adopted
    /\ round.shuffled
    /\ config.shuffle_after = 1

\* An iteration that adopted a candidate and did not shuffle.
C26_WitnessAdopted ==
    /\ round.valid
    /\ round.adopted
    /\ ~round.shuffled
    /\ current = round.candidate

(* ------------------------------- SpecSwap ------------------------------ *)

IdleSwap == neighborhood = None /\ swap_arg = << >> /\ swapped = None

IdleTabu ==
    /\ maxlen = Swap_maxlen
    /\ tabu_list = EmptyTabu.list
    /\ tabu_set = EmptyTabu.set
    /\ inserted = << >>

IdleSearch ==
    /\ config = None
    /\ pc = "idle"
    /\ current = None
    /\ result = None
    /\ iteration = 0
    /\ last_improved = 0
    /\ neighborhood_iterations = 0
    /\ round = NoRound
    /\ held = {}

IdleMO ==
    /\ results = {}
    /\ propagate = << >>
    /\ pending = 0
    /\ considered = 0
    /\ admission = None
    /\ tail = None

\* Segment lengths >= 1 with first_length + second_length <= dimension.
SwapLengths ==
    {l \in (1 .. Dimension) \X (1 .. Dimension) : l[1] + l[2] <= Dimension}

InitSwap ==
    /\ distances \in SwapDistanceTables
    /\ \E after \in InitialTours, l \in SwapLengths :
          neighborhood = SwapNeighborhood(SolutionOf(distances, after),
                                          l[1], l[2])
    /\ swap_arg = << >>
    /\ swapped = None
    /\ IdleTabu
    /\ IdleSearch
    /\ IdleMO
    /\ IdleDriver
    /\ IdleEnumeration
    /\ IdleImport

\* One call of Swap.swap on a move that find_best_candidate enumerates.
ApplySwap ==
    /\ \E k \in 0 .. (Moves(neighborhood) - 1) :
          /\ swap_arg' = Move(neighborhood, k)
          /\ swapped' = Swap(distances, neighborhood.solution,
                             Move(neighborhood, k))
    /\ UNCHANGED << distances, neighborhood, tabuVars, soVars, moVars,
                    driverVars, enumVars, importVars >>

NextSwap == ApplySwap

SpecSwap == InitSwap /\ [][NextSwap]_vars

\* C4: for every enumerated move with first_length, second_length >= 1 and
\* first_length + second_length <= dimension, the cost Swap.swap stores in
\* the new solution equals the sum of the distances along the new
\* solution's `after` links.
C4_IncrementalCostIsFullCost ==
    swapped # None => swapped.cost = FullCost(distances, swapped.after)

\* The nodes reached from node 0 along the `after` links.
RECURSIVE Reached(_, _, _)
Reached(after, node, seen) ==
    IF node \in seen THEN seen
    ELSE Reached(after, after[node], seen \cup {node})

\* C30: for every enumerated move with first_length + second_length <=
\* dimension, the solution Swap.swap returns has `before` and `after`
\* inverse of each other and `after` links that form one cycle through all
\* nodes, and the solution the neighborhood is bound to still is the tour
\* it was: its arrays inverse of each other, its cost that of its links.
C30_SwapKeepsTour ==
    swapped # None =>
        /\ \A v \in Nodes : swapped.before[swapped.after[v]] = v
        /\ Reached(swapped.after, 0, {}) = Nodes
        /\ neighborhood.solution
               = SolutionOf(distances, neighborhood.solution.after)

(* ------------------------------- SpecTabu ------------------------------ *)

\* The descriptors inserted: the Swap(1, 1) moves that exchange node 0 with
\* another node.
TabuDescriptors == {<< 0, 0, b, b >> : b \in 1 .. (Dimension - 1)}

InitTabu ==
    /\ maxlen \in 1 .. MaxCapacity
    /\ tabu_list = EmptyTabu.list
    /\ tabu_set = EmptyTabu.set
    /\ inserted = << >>
    /\ distances = ScenarioDistances
    /\ IdleSwap
    /\ IdleSearch
    /\ IdleMO
    /\ IdleDriver
    /\ IdleEnumeration
    /\ IdleImport

\* find_best_candidate records the descriptor of the candidate it returns.
InsertTabu ==
    /\ Len(inserted) < MaxInsertions
    /\ \E min_swap \in TabuDescriptors :
          LET tabu == RecordMinSwap([list |-> tabu_list, set |-> tabu_set],
                                    maxlen, min_swap)
          IN  /\ tabu_list' = tabu.list
              /\ tabu_set' = tabu.set
              /\ inserted' = Append(inserted, min_swap)
    /\ UNCHANGED << distances, maxlen, swapVars, soVars, moVars, driverVars,
                    enumVars, importVars >>

NextTabu == InsertTabu

SpecTabu == InitTabu /\ [][NextTabu]_vars

Distinct(seq) ==
    \A i, j \in 1 .. Len(seq) : i # j => seq[i] # seq[j]

\* C5: after N > capacity distinct insertions the memory holds exactly the
\* `capacity` most recent descriptors and no evicted one is a member; with
\* capacity 2 and insertions A, B, C, A is not a member and B and C are.
C5_TabuHoldsMostRecent ==
    /\ (Distinct(inserted) /\ Len(inserted) > maxlen)
       => LET n == Len(inserted)
          IN  /\ tabu_list = SubSeq(inserted, n - maxlen + 1, n)
              /\ tabu_set = {inserted[i] : i \in (n - maxlen + 1) .. n}
              /\ \A i \in 1 .. (n - maxlen) : inserted[i] \notin tabu_set
    /\ (maxlen = 2
        /\ inserted = << <<0, 0, 1, 1>>, <<0, 0, 2, 2>>, <<0, 0, 3, 3>> >>)
       => /\ <<0, 0, 1, 1>> \notin tabu_set
          /\ <<0, 0, 2, 2>> \in tabu_set
          /\ <<0, 0, 3, 3>> \in tabu_set

\* Capacity 2 after the insertions A, B, C.
C5_Witness ==
    /\ maxlen = 2
    /\ inserted = << <<0, 0, 1, 1>>, <<0, 0, 2, 2>>, <<0, 0, 3, 3>> >>


\* C28: after any sequence of insertions, re-insertions of a descriptor
\* that is present included, a descriptor is in the membership set if and
\* only if it occurs in the ordered sequence, and the sequence holds at most
\* `capacity` entries.
C28_ViewsAgree ==
    /\ tabu_set = {tabu_list[i] : i \in 1 .. Len(tabu_list)}
    /\ Len(tabu_list) <= maxlen

(* ----------------------------- SpecEnumerate --------------------------- *)

\* The two nested loops of find_best_candidate (lines 85-105) step by step,
\* for a solution of any dimension from 0 up, followed by the reduction and
\* the recording (lines 107-120).  The solution visits the nodes in the
\* order 0, 1, ..., dimension - 1, so solution.path[i] = i.

\* x % solution.dimension; Python raises ZeroDivisionError for dimension 0.
ModDimension(x, dimension) ==
    IF dimension = 0 THEN [raises |-> TRUE, value |-> 0]
    ELSE [raises |-> FALSE, value |-> x % dimension]

\* args = [IPCBundle(self, []) for _ in range(concurrency)]
EmptyBundles(concurrency) == [s \in 1 .. concurrency |-> << >>]

\* range(solution.dimension - first_length - second_length + 1) still has
\* the value d.
InRange(e) == e.d < e.dimension - e.first_length - e.second_length + 1

\* The values of os.cpu_count(): a positive number, or None (written 0)
\* when the number of CPUs cannot be determined.
CpuCounts == 0 .. MaxConcurrency

\* os.cpu_count() or 1 (line 85).
Concurrency(cpu_count) == IF cpu_count = 0 THEN 1 ELSE cpu_count

\* A pool of one worker whatever the machine (a mutation: Pool(1) in place
\* of Pool()).
PoolProcessesOne(cpu_count) == 1

\* The number of workers of the pool the driver creates with Pool()
\* (tsp/abc.py line 67): multiprocessing takes os.cpu_count() or 1 when no
\* number is given.
PoolProcesses(cpu_count) == IF cpu_count = 0 THEN 1 ELSE cpu_count

\* The cycle that stays on the bundle it is on (a mutation: the cycle
\* never advanced).
NextArgsIndexStuck(args_index, concurrency) == args_index

\* next(args_index_iteration) over itertools.cycle(range(concurrency)): the
\* index after args_index.
NextArgsIndex(args_index, concurrency) == (args_index + 1) % concurrency

InitEnumerate ==
    /\ \E dimension \in 0 .. Dimension,
          first_length \in 1 .. Dimension,
          second_length \in 1 .. Dimension,
          cpu_count \in CpuCounts :
          enumeration = [dimension |-> dimension,
                         first_length |-> first_length,
                         second_length |-> second_length,
                         processes |-> PoolProcesses(cpu_count),
                         concurrency |-> Concurrency(cpu_count),
                         pc |-> "outer",
                         first_head_index |-> 0,
                         first_tail_index |-> 0,
                         d |-> 0,
                         args |-> EmptyBundles(Concurrency(cpu_count)),
                         args_index |-> 0,
                         moves |-> << >>,
                         dispatched |-> 0,
                         result |-> None]
    /\ shards = None
    /\ distances = ScenarioDistances
    /\ IdleSwap
    /\ IdleTabu
    /\ IdleSearch
    /\ IdleMO
    /\ IdleDriver
    /\ IdleImport

\* Lines 91-92: the next first_head_index of range(solution.dimension), or
\* the end of the outer loop.
OuterStep ==
    /\ enumeration.pc = "outer"
    /\ IF enumeration.first_head_index < enumeration.dimension
       THEN LET tail_index == ModDimension(
                    enumeration.first_head_index
                        + enumeration.first_length - 1,
                    enumeration.dimension)
            IN  enumeration' =
                    IF tail_index.raises
                    THEN [enumeration EXCEPT !.pc = "raised"]
                    ELSE [enumeration EXCEPT
                              !.pc = "inner",
                              !.first_tail_index = tail_index.value,
                              !.d = 0]
       ELSE enumeration' = [enumeration EXCEPT !.pc = "reduce"]
    /\ UNCHANGED << distances, swapVars, tabuVars, soVars, moVars, driverVars,
                    importVars, shards >>

\* Lines 94-105: the next d of the inner range, with the descriptor built
\* and appended to the bundle the cycle names, or the end of the inner loop.
InnerStep ==
    /\ enumeration.pc = "inner"
    /\ IF InRange(enumeration)
       THEN LET head_index == ModDimension(
                    enumeration.first_tail_index + enumeration.d + 1,
                    enumeration.dimension)
                second_tail == ModDimension(
                    head_index.value + enumeration.second_length - 1,
                    enumeration.dimension)
                arg == << enumeration.first_head_index,
                          enumeration.first_tail_index,
                          head_index.value,
                          second_tail.value >>
                s == enumeration.args_index + 1
            IN  enumeration' =
                    IF head_index.raises \/ second_tail.raises
                    THEN [enumeration EXCEPT !.pc = "raised"]
                    ELSE [enumeration EXCEPT
                              !.args[s] = Append(@, arg),
                              !.args_index =
                                  NextArgsIndex(@, enumeration.concurrency),
                              !.moves = Append(@, arg),
                              !.d = @ + 1]
       ELSE enumeration' = [enumeration EXCEPT
                                !.pc = "outer",
                                !.first_head_index = @ + 1]
    /\ UNCHANGED << distances, swapVars, tabuVars, soVars, moVars, driverVars,
                    importVars, shards >>

\* The descriptors a reduction over the bundles can end with: a shard with
\* an empty bundle returns (None, None) and is skipped, any other shard
\* returns one of its descriptors, and which one wins depends on the costs.
Winners(args) ==
    IF \A s \in 1 .. Len(args) : args[s] = << >>
    THEN {None}
    ELSE UNION {{args[s][j] : j \in 1 .. Len(args[s])} : s \in 1 .. Len(args)}

\* Lines 107-120: the reduction, the recording of min_swap, the return.
ReduceAndRecord ==
    /\ enumeration.pc = "reduce"
    /\ \E min_swap \in Winners(enumeration.args) :
          LET tabu == RecordMinSwap([list |-> tabu_list, set |-> tabu_set],
                                    maxlen, min_swap)
          IN  /\ tabu_list' = tabu.list
              /\ tabu_set' = tabu.set
              /\ enumeration' = [enumeration EXCEPT
                                     !.pc = "returned",
                                     !.dispatched = Len(enumeration.args),
                                     !.result = min_swap]
    /\ UNCHANGED << distances, maxlen, inserted, swapVars, soVars, moVars,
                    driverVars, importVars, shards >>

NextEnumerate == OuterStep \/ InnerStep \/ ReduceAndRecord

SpecEnumerate == InitEnumerate /\ [][NextEnumerate]_vars

\* The neighborhood has no feasible move.
NoFeasibleMove(e) ==
    e.dimension = 0 \/ e.dimension - e.first_length - e.second_length + 1 <= 0

\* C14: on a neighborhood without a feasible move find_best_candidate does
\* not raise, hands only empty bundles to the pool, returns None and leaves
\* the tabu memory as it was.
C14_NoFeasibleMoveYieldsNone ==
    NoFeasibleMove(enumeration) =>
        /\ enumeration.pc # "raised"
        /\ \A s \in 1 .. enumeration.concurrency : enumeration.args[s] = << >>
        /\ enumeration.pc = "returned" => enumeration.result = None
        /\ tabu_list = EmptyTabu.list
        /\ tabu_set = EmptyTabu.set

\* A call that returned on a solution with nodes whose inner range is
\* empty: the outer loop ran once for every node.
C14_Witness ==
    /\ enumeration.pc = "returned"
    /\ enumeration.dimension >= 2
    /\ enumeration.dimension - enumeration.first_length
           - enumeration.second_length + 1 < 0
    /\ enumeration.first_head_index = enumeration.dimension

\* The bundle positions (shard, index) that hold the descriptor `move`.
BundlePositions(e, move) ==
    {position \in (1 .. Len(e.args)) \X (1 .. Len(e.moves)) :
        /\ position[2] <= Len(e.args[position[1]])
        /\ e.args[position[1]][position[2]] = move}

MaxCost == 2

\* Largest number of objectives tried.
MaxArity == 3

\* Largest iterations_count tried for the multi-objective search.
MaxFrontIterations == 2

\* Most candidates the neighborhoods produce in one search.
MaxCandidates == 2

\* Largest integer max_propagation tried.
MaxPropagation == 1

\* A solution is held by its cost vector: the solution sets compare and hash
\* solutions by cost.
CostVectors(arity) == [1 .. arity -> 0 .. MaxCost]

\* a dominates b: a <= b in every objective and a < b in at least one.
Dominates(a, b) ==
    /\ \A i \in 1 .. Len(a) : a[i] <= b[i]
    /\ \E i \in 1 .. Len(a) : a[i] < b[i]

\* candidate.add_to_pareto_set(front): rejected when a member dominates the
\* candidate; otherwise the members it dominates leave and it enters.
AddToParetoSet(candidate, front) ==
    IF \E member \in front : Dominates(member, candidate)
    THEN [admitted |-> FALSE, front |-> front]
    ELSE [admitted |-> TRUE,
          front |-> {member \in front : ~Dominates(candidate, member)}
                        \cup {candidate}]

\* The admission step adding the candidate to `results` directly (a
\* mutation: results.add(candidate) in place of the Pareto rule).
AdmitUnchecked(candidate, front) ==
    [admitted |-> TRUE, front |-> front \cup {candidate}]

\* The admission step that leaves the members the candidate dominates in
\* the front (a mutation: the removal forgotten).
AdmitKeepingDominated(candidate, front) ==
    IF AddToParetoSet(candidate, front).admitted
    THEN [admitted |-> TRUE, front |-> front \cup {candidate}]
    ELSE [admitted |-> FALSE, front |-> front]

\* The admission step of the driver: candidate.add_to_pareto_set(results)
\* (line 103).
Admit(candidate, front) == AddToParetoSet(candidate, front)

\* s.shuffle(): the solution itself (the default implementation) or a
\* perturbation of it, here the one with the objectives' values exchanged.
ShuffleCost(s) == {s, [i \in 1 .. Len(s) |-> s[Len(s) + 1 - i]]}

\* set(s.shuffle() for s in current)
ShuffledSets(solutions) ==
    {{f[s] : s \in solutions} :
        f \in {g \in [solutions -> UNION {ShuffleCost(s) : s \in solutions}] :
                 \A s \in solutions : g[s] \in ShuffleCost(s)}}

\* The values of max_propagation: None, an integer, or a function of the
\* front (here len).
MaxPropagationValues ==
    {[kind |-> "none", value |-> 0], [kind |-> "len", value |-> 0]}
        \cup {[kind |-> "int", value |-> n] : n \in 0 .. MaxPropagation}

\* max_propagation if isinstance(max_propagation, int) else max_propagation(results)
PropagationValue(max_propagation, front) ==
    IF max_propagation.kind = "int"
    THEN max_propagation.value
    ELSE Cardinality(front)

\* The sets left by removing random.sample(list(current), remove_count).
SampleRemoved(solutions, remove_count) ==
    {solutions \ gone : gone \in {g \in SUBSET solutions :
                                    Cardinality(g) = remove_count}}

\* The elements of a list as a set.
Range(seq) == {seq[i] : i \in 1 .. Len(seq)}

\* The staging test with the propagation predicate left out (a mutation).
StagedOnlyAdmitted(admitted, accepted) == admitted

\* Line 103: `candidate.add_to_pareto_set(results) or
\* propagation_predicate(candidate, results)`.
Staged(admitted, accepted) == admitted \/ accepted

\* Lines 106-107: every staged candidate is added to `current`.
Grown(solutions, staged) == solutions \cup Range(staged)

\* Lines 106-108: `last_improved = iteration` runs once per staged candidate.
LastImproved(staged, i, improved) ==
    IF staged # << >> THEN i ELSE improved

\* Lines 110-112: remove_count, 0 standing for "no bound set".
RemoveCount(max_propagation, solutions, front) ==
    IF max_propagation.kind = "none" THEN 0
    ELSE Cardinality(solutions) - PropagationValue(max_propagation, front)

\* The removal of one member fewer than remove_count (a mutation).
CutShort(solutions, remove_count) ==
    IF remove_count > 0
    THEN SampleRemoved(solutions, remove_count - 1)
    ELSE {solutions}

\* Lines 113-115: the working sets the removal of a random sample can leave.
Cut(solutions, remove_count) ==
    IF remove_count > 0
    THEN SampleRemoved(solutions, remove_count)
    ELSE {solutions}

\* r.post_optimization(...): the solution itself (the default) or a solution
\* that is better by one in one objective.
PostOptimizations(s) ==
    {s} \cup {[s EXCEPT ![i] = s[i] - 1] : i \in {j \in 1 .. Len(s) : s[j] > 0}}

\* set(r.post_optimization(...) for r in results)
PostOptimizedSets(front) ==
    {{f[r] : r \in front} :
        f \in {g \in [front -> UNION {PostOptimizations(r) : r \in front}] :
                 \A r \in front : g[r] \in PostOptimizations(r)}}

\* The cost vectors of the candidates a neighborhood of the solution s
\* produces: s with one objective one better or one worse.
CandidateCosts(s) ==
    {c \in CostVectors(Len(s)) :
        \E i \in 1 .. Len(s) :
            /\ c[i] - s[i] \in {-1, 1}
            /\ \A j \in 1 .. Len(s) : j # i => c[j] = s[j]}

\* The cost vectors cls.initial() may have: every objective the same.
InitialCosts(arity) == {[i \in 1 .. arity |-> c] : c \in 0 .. MaxCost}

\* Lines 77-85: initial, results, current.
InitFront ==
    /\ config \in [iterations_count : {MaxFrontIterations},
                   shuffle_after : 0 .. 1,
                   max_propagation : MaxPropagationValues,
                   plot_pareto_front : BOOLEAN]
    /\ \E arity \in 1 .. MaxArity : initial \in InitialCosts(arity)
    /\ results = {initial}
    /\ current = {initial}
    /\ pc = "arity"
    /\ pool = NoPool
    /\ returned = None
    /\ iteration = 0
    /\ last_improved = 0
    /\ propagate = << >>
    /\ pending = 0
    /\ considered = 0
    /\ admission = None
    /\ tail = None
    /\ result = None
    /\ neighborhood_iterations = 0
    /\ round = NoRound
    /\ held = {}
    /\ distances = ScenarioDistances
    /\ IdleSwap
    /\ IdleTabu
    /\ IdleEnumeration
    /\ IdleImport

\* Lines 86-88: `if len(initial.cost()) != 2: raise ValueError(message)`.
ArityRaises(cost) == Len(cost) # 2

\* The arity test, then `with Pool(pool_size) as pool` and `last_improved = 0`.
CheckArity ==
    /\ pc = "arity"
    /\ IF ArityRaises(initial)
       THEN pc' = "raised" /\ pool' = pool
       ELSE pc' = "iterate" /\ pool' = EnterPool(pool)
    /\ UNCHANGED << distances, config, current, result, iteration,
                    last_improved, neighborhood_iterations, round, held,
                    returned, initial, tabuVars, swapVars, moVars, enumVars,
                    importVars >>

\* The head of an iteration: `propagate = []`, then the loop over `current`
\* begins; an empty `current` yields no candidate.
BeginIteration ==
    /\ pc = "iterate"
    /\ BudgetLeft(iteration, config.iterations_count)
    /\ propagate' = << >>
    /\ pending' \in IF current = {}
                   THEN {0}
                   ELSE 0 .. (MaxCandidates - considered)
    /\ admission' = None
    /\ pc' = "candidates"
    /\ UNCHANGED << distances, config, current, result, iteration,
                    last_improved, neighborhood_iterations, round, held,
                    tabuVars, swapVars, results, considered, tail,
                    driverVars, enumVars, importVars >>

\* One candidate of find_best_candidates (lines 99-104): Pareto admission
\* into `results`, then the propagation predicate, which `or` calls only
\* for a candidate that was not admitted; `accepted` is its answer (always
\* true for the default, _accept_all).
ConsiderCandidate ==
    /\ pc = "candidates"
    /\ pending > 0
    /\ \E solution \in current : \E candidate \in CandidateCosts(solution) :
          \E outcome \in {Admit(candidate, results)} :
          \E accepted \in IF outcome.admitted THEN {FALSE} ELSE BOOLEAN :
          /\ results' = outcome.front
          /\ propagate' = IF Staged(outcome.admitted, accepted)
                          THEN Append(propagate, candidate)
                          ELSE propagate
          /\ admission' = [candidate |-> candidate,
                           admitted |-> outcome.admitted,
                           accepted |-> accepted,
                           staged_before |-> propagate]
    /\ pending' = pending - 1
    /\ considered' = considered + 1
    /\ UNCHANGED << distances, config, pc, current, result, iteration,
                    last_improved, neighborhood_iterations, round, held,
                    tabuVars, swapVars, tail, driverVars, enumVars,
                    importVars >>

\* find_best_candidates raises while the candidates of an iteration are
\* produced: the exception leaves the loops and the `with` block.
FaultFront ==
    /\ pc = "candidates"
    /\ pending > 0
    /\ pool' = ExitPool(pool)
    /\ pc' = "aborted"
    /\ UNCHANGED << distances, config, current, result, iteration,
                    last_improved, neighborhood_iterations, round, held,
                    returned, initial, tabuVars, swapVars, moVars, enumVars,
                    importVars >>

\* The tail of an iteration (lines 106-118): the staged candidates join
\* `current`, the working set is cut to max_propagation, and a stagnant
\* working set is shuffled.
EndIteration ==
    /\ pc = "candidates"
    /\ pending = 0
    /\ LET grown == Grown(current, propagate)
           improved == LastImproved(propagate, iteration, last_improved)
           remove_count == RemoveCount(config.max_propagation, grown, results)
           shuffles == iteration - improved >= config.shuffle_after
       IN  /\ last_improved' = improved
           /\ \E cut \in Cut(grown, remove_count) :
                 /\ current' \in IF shuffles THEN ShuffledSets(cut) ELSE {cut}
                 /\ tail' = [before |-> current,
                             staged |-> propagate,
                             grown |-> grown,
                             cut |-> cut,
                             value |-> PropagationValue(
                                           config.max_propagation, results),
                             improved_before |-> last_improved,
                             improved_after |-> improved,
                             shuffled |-> shuffles,
                             after |-> current',
                             iteration |-> iteration]
    /\ iteration' = iteration + 1
    /\ pc' = "iterate"
    /\ UNCHANGED << distances, config, result, neighborhood_iterations, round,
                    held, tabuVars, swapVars, results, propagate, pending,
                    considered, admission, driverVars, enumVars, importVars >>

\* The iteration budget is exhausted: the `with` block ends and line 142
\* returns the post-optimized members of `results`.
FinishFront ==
    /\ pc = "iterate"
    /\ iteration = config.iterations_count
    /\ pool' = HandPool(ExitPool(pool), Cardinality(results))
    /\ returned' \in PostOptimizedSets(results)
    /\ pc' = "done"
    /\ UNCHANGED << distances, config, current, result, iteration,
                    last_improved, neighborhood_iterations, round, held,
                    initial, tabuVars, swapVars, moVars, enumVars,
                    importVars >>

NextMO ==
    CheckArity \/ BeginIteration \/ ConsiderCandidate \/ FaultFront
        \/ EndIteration \/ FinishFront

SpecMO == InitFront /\ [][NextMO]_vars

\* C11: the returned set holds a post-optimized solution for each member of
\* the final `results` and nothing else, and no returned cost vector
\* dominates another returned cost vector.
C11_ReturnedIsParetoFront ==
    pc = "done" =>
        /\ \A r \in results : \E s \in returned : s \in PostOptimizations(r)
        /\ \A s \in returned : \E r \in results : s \in PostOptimizations(r)
        /\ \A a \in returned : \A b \in returned :
              a # b => ~Dominates(a, b)

\* C17: with max_propagation set to m >= 0 the working set holds at most m
\* members at the end of an iteration; the enforcement step removes
\* nothing from a working set of at most m members and exactly the excess
\* from a larger one.
C17_WorkingSetBounded ==
    (tail # None /\ config.max_propagation.kind # "none") =>
        LET m == IF config.max_propagation.kind = "int"
                 THEN config.max_propagation.value
                 ELSE tail.value
        IN  /\ m >= 0
            /\ Cardinality(current) <= m
            /\ Cardinality(tail.cut) <= m
            /\ Cardinality(tail.grown) <= m => tail.cut = tail.grown
            /\ Cardinality(tail.grown) > m =>
                  /\ tail.cut \subseteq tail.grown
                  /\ Cardinality(tail.grown \ tail.cut)
                         = Cardinality(tail.grown) - m

\* An iteration whose working set exceeded a positive bound by two.
C17_Witness ==
    /\ tail # None
    /\ config.max_propagation.kind = "int"
    /\ config.max_propagation.value >= 1
    /\ Cardinality(tail.grown) = config.max_propagation.value + 2

\* C18: an iteration in which `current` did not grow leaves the stagnation
\* counter running: last_improved is reset only by an iteration that added
\* a candidate which was not yet a member.
C18_ResetOnlyOnGrowth ==
    (tail # None /\ tail.grown = tail.before) =>
        tail.improved_after = tail.improved_before

\* C19: a candidate is staged exactly when it was admitted into `results`
\* or the propagation predicate accepted it; `current` stays as the last
\* iteration left it while candidates are considered; and what the tail of
\* the iteration adds to `current` is exactly the staged candidates.
C19_StagedIffAdmittedOrAccepted ==
    /\ admission # None =>
          propagate = IF admission.admitted \/ admission.accepted
                      THEN Append(admission.staged_before, admission.candidate)
                      ELSE admission.staged_before
    /\ pc = "candidates" =>
          current = IF tail = None THEN {initial} ELSE tail.after
    /\ tail # None => tail.grown = tail.before \cup Range(tail.staged)

\* An iteration that staged two candidates, the second one rejected by the
\* Pareto rule and accepted by the propagation predicate.
C19_Witness ==
    /\ admission # None
    /\ ~admission.admitted
    /\ admission.accepted
    /\ Len(propagate) = 2

(* ----------------------------- both drivers ---------------------------- *)

InitDrivers == InitSearch \/ InitFront

NextDrivers == Next \/ NextMO

SpecDrivers == InitDrivers /\ [][NextDrivers]_vars

\* C12: a search acquires its pool at most once and never releases more
\* than it acquired; inside the loop the pool is open; once the search has
\* ended by the end of the budget, by `break` or by an exception from a
\* round, the pool it acquired has been released exactly once.
C12_PoolReleasedOnEveryExit ==
    /\ pool.acquired <= 1
    /\ pool.released <= pool.acquired
    /\ pc \in {"search", "iterate", "candidates"} =>
          /\ pool.state = "open"
          /\ pool.acquired = 1
          /\ pool.released = 0
    /\ pc \in {"done", "aborted"} =>
          /\ pool.state = "closed"
          /\ pool.acquired = 1
          /\ pool.released = 1

\* A search of the single-objective driver that ended with an exception
\* from a round after an earlier round had succeeded.
C12_Witness ==
    /\ pc = "aborted"
    /\ round.raised
    /\ iteration >= 1
    /\ pool.released = 1

\* C29: no call is handed a worker pool that has been released: every
\* post_optimization call of the multi-objective driver that receives the
\* pool runs while the pool is open, and every find_best_candidate call of
\* the single-objective driver is made inside the pool's scope.
C29_NoUseAfterRelease ==
    /\ pool.late = 0
    /\ round.valid => (round.pool.state = "open" /\ round.pool.late = 0)

\* The run is one of the single-objective driver.
IsSingleObjective == "lengths" \in DOMAIN config

\* The search has been left: by `return`, or by an exception.
Ended == pc \in {"done", "aborted", "raised"}

\* What is left of the budget of the run: every step of a driver uses some
\* of it up.
Budget ==
    IF Ended THEN 0
    ELSE IF IsSingleObjective
    THEN 2 * (config.iterations_count - iteration)
             + (IF pc = "start" THEN 2 ELSE 1)
    ELSE LET W == MaxCandidates + 2
         IN  IF pc = "arity" THEN config.iterations_count * W + 2
             ELSE IF pc = "iterate"
             THEN (config.iterations_count - iteration) * W + 1
             ELSE (config.iterations_count - iteration - 1) * W + 2 + pending

\* C27 as stated: a search that has ended has reached DONE, and the
\* multi-objective one has run exactly iterations_count iterations: nothing
\* but the budget, or a neighborhood without a candidate in the
\* single-objective driver, stops the loop.
C27_OnlyTheBudgetStops ==
    Ended =>
        /\ pc = "done"
        /\ IsSingleObjective =>
               \/ iteration = config.iterations_count
               \/ (round.valid /\ round.candidate = None)
        /\ ~IsSingleObjective => iteration = config.iterations_count

\* What holds in every state of a search.
C27_Bounded ==
    /\ Budget >= 0
    /\ iteration <= config.iterations_count
    /\ IsSingleObjective =>
           /\ neighborhood_iterations <= config.iterations_count
           /\ pc = "done" =>
                  \/ iteration = config.iterations_count
                  \/ (round.valid /\ round.candidate = None
                      /\ ~round.raised)
           /\ pc = "aborted" => round.raised
           /\ pc # "raised"
    /\ ~IsSingleObjective =>
           /\ pc = "done" => iteration = config.iterations_count
           /\ pc = "raised" => iteration = 0 /\ ArityRaises(initial)
           /\ pc = "aborted" => iteration < config.iterations_count

\* C27 amended: both drivers terminate, every step using up some of a
\* budget that iterations_count bounds.  The single-objective driver asks
\* at most iterations_count neighborhoods and is DONE when the budget is
\* exhausted or a neighborhood returns no candidate; the multi-objective
\* driver is done after exactly iterations_count iterations, also with an
\* empty `current` or without candidates.  The one other way out is an
\* exception (a round that raises, the arity error before the loop), which
\* stops the search at once and returns nothing.
C27_TerminatesWithinBudget ==
    [](C27_Bounded) /\ [][Budget' < Budget]_vars

\* A multi-objective search that ran its whole budget although `current`
\* was empty from the first iteration on.
C27_Witness ==
    /\ ~IsSingleObjective
    /\ pc = "done"
    /\ iteration = config.iterations_count
    /\ current = {}
    /\ tail.before = {}

(* ------------------------------ SpecFront ------------------------------ *)

\* `results` as the search creates it: the front that holds only initial().
InitAdmissions ==
    /\ \E start \in CostVectors(2) : results = {start}
    /\ admission = None
    /\ propagate = << >>
    /\ pending = 0
    /\ considered = 0
    /\ tail = None
    /\ distances = ScenarioDistances
    /\ IdleSwap
    /\ IdleTabu
    /\ IdleSearch
    /\ IdleDriver
    /\ IdleEnumeration
    /\ IdleImport

\* One admission of a candidate into `results` (line 103), for any
\* candidate a neighborhood may produce.
AdmitCandidate ==
    /\ \E candidate \in CostVectors(2) :
          \E outcome \in {Admit(candidate, results)} :
          /\ results' = outcome.front
          /\ admission' = [candidate |-> candidate, before |-> results,
                           admitted |-> outcome.admitted]
    /\ UNCHANGED << distances, tabuVars, swapVars, soVars, propagate,
                    pending, considered, tail, driverVars, enumVars,
                    importVars >>

NextFront == AdmitCandidate

SpecFront == InitAdmissions /\ [][NextFront]_vars

\* C1: no member of `results` dominates another member.
C1_FrontIsNonDominated ==
    \A a \in results : \A b \in results : a # b => ~Dominates(a, b)

\* An admission that removed a member and left a front of two or more.
C1_Witness ==
    /\ admission # None
    /\ admission.admitted
    /\ admission.before \ results # {}
    /\ Cardinality(results) >= 2

\* C2: a candidate that a member dominates is rejected and the front stays
\* as it was; any other candidate is admitted and the new front is the old
\* one without the members the candidate dominates, plus the candidate; no
\* member that the candidate does not dominate is removed.
C2_AdmissionRule ==
    admission # None =>
        LET c == admission.candidate
            before == admission.before
        IN  /\ admission.admitted
                <=> ~(\E member \in before : Dominates(member, c))
            /\ ~admission.admitted => results = before
            /\ admission.admitted =>
                  /\ c \in results
                  /\ results \subseteq before \cup {c}
                  /\ \A member \in before :
                        member \in results <=> ~Dominates(c, member)

\* A rejection, and after it an admission that removed a member.
C2_Witness ==
    /\ admission # None
    /\ admission.admitted
    /\ \E member \in admission.before : Dominates(admission.candidate, member)
    /\ \E member \in admission.before : ~Dominates(admission.candidate, member)

\* C10: the search raises the arity error only when plot_pareto_front is
\* true; without plotting a cost vector of any arity starts iterating.
C10_ArityErrorOnlyWhenPlotting ==
    pc = "raised" => config.plot_pareto_front

(* ------------------------------ SpecImport ----------------------------- *)

\* Number of problem identifiers tried.
MaxProblems == 2

\* Most import_problem calls made one after another.
MaxImports == 2

\* A class attribute that has not been assigned (the data attributes are
\* only annotated in the class body, lines 42-56).
Unset == [unset |-> TRUE]

\* An attribute holding the value v.
Value(v) == [value |-> v]

\* The class-level state of D2DPathSolution as the class body leaves it
\* (lines 32-33): no configuration imported, problem = None.
InitialClassState ==
    [config_imported |-> FALSE,
     problem |-> None,
     customers_count |-> Unset,
     drones_count |-> Unset,
     technicians_count |-> Unset,
     drones_flight_duration |-> Unset,
     x |-> Unset,
     y |-> Unset,
     demands |-> Unset,
     dronable |-> Unset,
     technician_service_time |-> Unset,
     drone_service_time |-> Unset,
     energy_mode |-> Unset]

\* The files problems/d2d/random_data/<problem>.txt can be: missing, or with
\* each of the three header fields found or not by its re.search, and with
\* customer rows that float() parses or not (the row pattern [-\d\.]+ also
\* matches text such as "1.2.3").
ProblemFiles ==
    [exists : BOOLEAN,
     customers : BOOLEAN,
     number_drone : BOOLEAN,
     flight_time : BOOLEAN,
     rows_parse : BOOLEAN]

\* The values of energy_mode.
EnergyModes == {"LINEAR", "NON_LINEAR"}

\* What a field of the file of `problem` parses to: the files of different
\* problems hold different values.
Parsed(problem) == Value(problem)

\* The outcome of an import that raised with the class state `state`: the
\* `except` clause of lines 410-411.
ImportFailed(problem, state) ==
    [raised |-> TRUE, named |-> problem, state |-> state]

\* D2DPathSolution.import_problem(problem, energy_mode=...), lines 369-411:
\* the class attributes are assigned one by one as the file is parsed, and
\* the first failure leaves through the `except` clause.
ImportProblem(state, problem, file, energy_mode) ==
    LET s0 == [state EXCEPT !.config_imported = TRUE]
        s1 == [s0 EXCEPT !.problem = Value(problem)]
        s2 == [s1 EXCEPT !.customers_count = Parsed(problem)]
        s3 == [s2 EXCEPT !.drones_count = Parsed(problem),
                         !.technicians_count = Parsed(problem)]
        s4 == [s3 EXCEPT !.drones_flight_duration = Parsed(problem)]
        s5 == [s4 EXCEPT !.x = Parsed(problem),
                         !.y = Parsed(problem),
                         !.demands = Parsed(problem),
                         !.dronable = Parsed(problem),
                         !.technician_service_time = Parsed(problem),
                         !.drone_service_time = Parsed(problem),
                         !.energy_mode = Value(energy_mode)]
    IN  IF ~file.exists THEN ImportFailed(problem, s0)
        ELSE IF ~file.customers THEN ImportFailed(problem, s1)
        ELSE IF ~file.number_drone THEN ImportFailed(problem, s2)
        ELSE IF ~file.flight_time THEN ImportFailed(problem, s3)
        ELSE IF ~file.rows_parse THEN ImportFailed(problem, s4)
        ELSE [raised |-> FALSE, named |-> problem, state |-> s5]

InitImport ==
    /\ class_state = InitialClassState
    /\ import_call = [count |-> 0, problem |-> 0, raised |-> FALSE,
                      named |-> 0, before |-> InitialClassState]
    /\ construction = None
    /\ summary = None
    /\ distances = ScenarioDistances
    /\ IdleSwap
    /\ IdleTabu
    /\ IdleSearch
    /\ IdleMO
    /\ IdleDriver
    /\ IdleEnumeration

\* One call of import_problem.
CallImportProblem ==
    /\ import_call.count < MaxImports
    /\ \E problem \in 1 .. MaxProblems, file \in ProblemFiles,
          energy_mode \in EnergyModes :
          \E outcome \in {ImportProblem(class_state, problem, file,
                                        energy_mode)} :
          /\ class_state' = outcome.state
          /\ import_call' = [count |-> import_call.count + 1,
                             problem |-> problem,
                             raised |-> outcome.raised,
                             named |-> outcome.named,
                             before |-> class_state]
    /\ UNCHANGED << distances, swapVars, tabuVars, soVars, moVars, driverVars,
                    enumVars, construction, summary >>

NextImport == CallImportProblem

SpecImport == InitImport /\ [][NextImport]_vars

\* The problem data of the class: everything but the configuration flag.
ProblemData(state) == [state EXCEPT !.config_imported = FALSE]

\* C20: a failed import_problem raises ImportException naming the problem
\* identifier it was called with and leaves the class-level problem data
\* exactly as they were before the call.
C20_FailedImportLeavesStateUntouched ==
    import_call.raised =>
        /\ import_call.named = import_call.problem
        /\ ProblemData(class_state) = ProblemData(import_call.before)

(* ------------------------------ SpecShards ----------------------------- *)

\* One round of the worker pool, shard by shard: the driver has dispatched
\* one bundle per shard, the workers return in any order, pool.map hands the
\* results back, and the driver reduces them and changes the tabu memory
\* (Swap.find_best_candidate) or the Pareto front (the loop of
\* MultiObjectiveSolution.tabu_search over find_best_candidates).

\* The shards of a round are numbered as range(concurrency).
ShardIds(concurrency) == 0 .. (concurrency - 1)

\* A shard whose worker has not returned.
NotReturned == [returned |-> FALSE, raised |-> FALSE, value |-> None]

\* What the worker of shard s returns: static_find_best_candidate over its
\* bundle (lines 122-135), or the candidates the shard of a multi-objective
\* neighborhood yields.  The worker reads its bundle only.
Evaluate(table, round_state, s) ==
    IF round_state.kind = "single"
    THEN StaticFindBestCandidate(
             table, round_state.neighborhood,
             BundleData(round_state.neighborhood, s, round_state.concurrency))
    ELSE round_state.yields[s]

\* The results handed back in the order the shards completed (a mutation:
\* pool.imap_unordered in place of pool.map).
MapResultsUnordered(collected, order) ==
    [i \in 1 .. Len(order) |-> collected[order[i]].value]

\* pool.map(...) (line 109): the results in the order of the bundles,
\* whatever the order the shards completed in.
MapResults(collected, order) ==
    [i \in 1 .. Len(order) |-> collected[i - 1].value]

RECURSIVE ReduceMapped(_, _, _)
\* The loop of lines 109-115 over the results pool.map returned, from the
\* i-th on.
ReduceMapped(mapped, i, best) ==
    IF i > Len(mapped) THEN best
    ELSE IF mapped[i].result = None \/ mapped[i].min_swap = None
    THEN ReduceMapped(mapped, i + 1, best)
    ELSE IF best.result = None \/ Less(mapped[i].result, best.result)
    THEN ReduceMapped(mapped, i + 1, mapped[i])
    ELSE ReduceMapped(mapped, i + 1, best)

\* The members of `costs` no other member dominates.
NonDominated(costs) ==
    {c \in costs : ~\E other \in costs : Dominates(other, c)}

\* The round of a Swap neighborhood.
InitSingleRound ==
    /\ distances \in {SquareDistances, ScenarioDistances}
    /\ \E after \in InitialTours, lengths \in {<< 1, 1 >>, << 2, 1 >>},
          concurrency \in 1 .. MaxConcurrency :
          \E faulty \in SUBSET ShardIds(concurrency) :
             shards = [kind |-> "single",
                       pc |-> "evaluating",
                       neighborhood |->
                           SwapNeighborhood(SolutionOf(distances, after),
                                            lengths[1], lengths[2]),
                       concurrency |-> concurrency,
                       yields |-> [s \in ShardIds(concurrency) |-> {}],
                       faulty |-> faulty,
                       running |-> ShardIds(concurrency),
                       collected |->
                           [s \in ShardIds(concurrency) |-> NotReturned],
                       order |-> << >>,
                       mapped |-> << >>,
                       reduced |-> 0,
                       best |-> NoCandidate,
                       to_admit |-> {},
                       front_before |-> {}]
    /\ results = {}

\* The round of a multi-objective neighborhood of a solution of `results`.
InitMultiRound ==
    /\ distances = ScenarioDistances
    /\ \E start \in InitialCosts(2), concurrency \in 1 .. MaxConcurrency :
          \E yields \in [ShardIds(concurrency) ->
                            {{}} \cup {{c} : c \in CandidateCosts(start)}] :
             /\ shards = [kind |-> "multi",
                          pc |-> "evaluating",
                          neighborhood |-> None,
                          concurrency |-> concurrency,
                          yields |-> yields,
                          faulty |-> {},
                          running |-> ShardIds(concurrency),
                          collected |->
                              [s \in ShardIds(concurrency) |-> NotReturned],
                          order |-> << >>,
                          mapped |-> << >>,
                          reduced |-> 0,
                          best |-> NoCandidate,
                          to_admit |-> {},
                          front_before |-> {start}]
             /\ results = {start}

InitShards ==
    /\ InitSingleRound \/ InitMultiRound
    /\ enumeration = None
    /\ propagate = << >>
    /\ pending = 0
    /\ considered = 0
    /\ admission = None
    /\ tail = None
    /\ IdleSwap
    /\ IdleTabu
    /\ IdleSearch
    /\ IdleDriver
    /\ IdleImport

\* A worker finishes its shard and its result, or the exception it raised,
\* travels back to the driver's process.
WorkerReturns ==
    /\ shards.pc = "evaluating"
    /\ \E s \in shards.running :
          shards' =
              [shards EXCEPT
                  !.running = @ \ {s},
                  !.order = Append(@, s),
                  !.collected[s] =
                      IF s \in shards.faulty
                      THEN [returned |-> TRUE, raised |-> TRUE,
                            value |-> None]
                      ELSE [returned |-> TRUE, raised |-> FALSE,
                            value |-> Evaluate(distances, shards, s)]]
    /\ UNCHANGED << distances, swapVars, tabuVars, soVars, moVars, driverVars,
                    importVars, enumeration >>

\* pool.map returns once every shard has returned: the list of results, or
\* the exception of a shard that raised.
Join ==
    /\ shards.pc = "evaluating"
    /\ shards.running = {}
    /\ shards' =
           IF \E s \in ShardIds(shards.concurrency) : shards.collected[s].raised
           THEN [shards EXCEPT !.pc = "aborted"]
           ELSE [shards EXCEPT
                    !.pc = "reducing",
                    !.mapped = MapResults(shards.collected, shards.order)]
    /\ UNCHANGED << distances, swapVars, tabuVars, soVars, moVars, driverVars,
                    importVars, enumeration >>

\* Lines 107-120 of Swap.find_best_candidate: the reduction over the mapped
\* results, then the recording of min_swap.
ReduceSingle ==
    /\ shards.pc = "reducing"
    /\ shards.kind = "single"
    /\ \E best \in {ReduceMapped(shards.mapped, 1, NoCandidate)} :
          LET tabu == RecordMinSwap([list |-> tabu_list, set |-> tabu_set],
                                    maxlen, best.min_swap)
          IN  /\ tabu_list' = tabu.list
              /\ tabu_set' = tabu.set
              /\ shards' = [shards EXCEPT
                                !.pc = "returned",
                                !.reduced = Len(shards.mapped),
                                !.best = best]
    /\ UNCHANGED << distances, maxlen, inserted, swapVars, soVars, moVars,
                    driverVars, importVars, enumeration >>

\* find_best_candidates returns every candidate the shards produced.
CollectMulti ==
    /\ shards.pc = "reducing"
    /\ shards.kind = "multi"
    /\ LET candidates == UNION Range(shards.mapped)
       IN  shards' = [shards EXCEPT
                          !.pc = IF candidates = {} THEN "returned"
                                 ELSE "admitting",
                          !.reduced = Len(shards.mapped),
                          !.to_admit = candidates]
    /\ UNCHANGED << distances, swapVars, tabuVars, soVars, moVars, driverVars,
                    importVars, enumeration >>

\* One turn of the loop of lines 99-104 of the multi-objective driver: the
\* next candidate is admitted into `results` or rejected.
AdmitReturned ==
    /\ shards.pc = "admitting"
    /\ \E candidate \in shards.to_admit :
          /\ results' = Admit(candidate, results).front
          /\ shards' = [shards EXCEPT
                            !.to_admit = @ \ {candidate},
                            !.pc = IF shards.to_admit = {candidate}
                                   THEN "returned" ELSE "admitting"]
    /\ UNCHANGED << distances, swapVars, tabuVars, soVars, propagate, pending,
                    considered, admission, tail, driverVars, importVars,
                    enumeration >>

NextShards ==
    \/ WorkerReturns
    \/ Join
    \/ ReduceSingle
    \/ CollectMulti
    \/ AdmitReturned

SpecShards == InitShards /\ [][NextShards]_vars

\* C25: the tabu memory and the Pareto front stay as they were while any
\* shard of the round is still being evaluated or its result has not been
\* reduced (so a worker's step changes neither), a round that a worker
\* fault aborts changes neither, and what the round ends with does not
\* depend on the order in which the shards completed: the candidate and
\* the recorded descriptor are those of the reduction in bundle order, and
\* the front is the non-dominated part of the old front and the candidates.
C25_DriverChangesAfterJoin ==
    /\ (shards.running # {} \/ shards.reduced < shards.concurrency) =>
           /\ tabu_list = EmptyTabu.list
           /\ tabu_set = EmptyTabu.set
           /\ results = shards.front_before
    /\ (shards.pc = "returned" /\ shards.kind = "single") =>
           LET best == FindBestCandidate(distances, shards.neighborhood,
                                         shards.concurrency)
               tabu == RecordMinSwap(EmptyTabu, maxlen, best.min_swap)
           IN  /\ shards.best = best
               /\ tabu_list = tabu.list
               /\ tabu_set = tabu.set
               /\ results = shards.front_before
    /\ (shards.pc = "returned" /\ shards.kind = "multi") =>
           /\ results = NonDominated(
                  shards.front_before
                      \cup UNION {shards.yields[s] :
                                      s \in ShardIds(shards.concurrency)})
           /\ tabu_list = EmptyTabu.list
           /\ tabu_set = EmptyTabu.set

\* A round of a Swap neighborhood whose shards completed in another order
\* than they were dispatched in and that recorded a descriptor.
C25_Witness ==
    /\ shards.pc = "returned"
    /\ shards.kind = "single"
    /\ shards.concurrency >= 2
    /\ shards.order[1] # 0
    /\ tabu_list # EmptyTabu.list

\* A round of a multi-objective neighborhood whose shards completed in
\* another order than they were dispatched in and that changed the front.
C25_WitnessFront ==
    /\ shards.pc = "returned"
    /\ shards.kind = "multi"
    /\ shards.concurrency >= 2
    /\ shards.order[1] # 0
    /\ results # shards.front_before

(* ------------------------------ SpecInitial ---------------------------- *)

\* Most customers of a problem (customers_count).
MaxCustomers == 3

\* Most drones, which is also the number of technicians.
MaxFleet == 2

\* Largest demand of a customer; a drone carries at most one unit more.
MaxDemand == 1

\* The problem data initial() reads.  import_problem assigns drones_count
\* and technicians_count from the same header field (lines 382-383), so one
\* number `fleet` stands for both; `capacity` is the capacity of the drone
\* configuration the run uses.  The coordinates are left out: the
\* customer that is nearest, and the technician path that is nearest, can be
\* any of them.
Instances ==
    UNION {[customers_count : {c},
            fleet : {f},
            dronable : [1 .. c -> BOOLEAN],
            demands : [1 .. c -> 1 .. MaxDemand],
            capacity : 1 .. (MaxDemand + 1)] :
               c \in 1 .. MaxCustomers, f \in 1 .. MaxFleet}

\* itertools.cycle over `count` items: the position after `position`.
CycleNext(position, count) == (position % count) + 1

\* path.append(item) on the last path of `paths`.
AppendToLast(paths, item) ==
    [paths EXCEPT ![Len(paths)] = Append(paths[Len(paths)], item)]

\* path.insert(-1, index): index goes right before the last element.
InsertBeforeLast(path, index) ==
    SubSeq(path, 1, Len(path) - 1) \o << index, path[Len(path)] >>

\* The test of line 339 without its weight term: a drone takes a customer
\* whenever time and energy allow it.
FitsIgnoringWeight(weight, demand, capacity, within) == within

\* The test of line 339: the customer fits the drone's load, and `within`
\* says that it also fits the flight duration and the battery.
Fits(weight, demand, capacity, within) ==
    weight + demand <= capacity /\ within

InitInitial ==
    /\ \E instance \in Instances :
          construction =
              [pc |-> "technicians",
               instance |-> instance,
               technician_paths |-> [t \in 1 .. instance.fleet |-> << 0 >>],
               technician_only |-> {e \in 1 .. instance.customers_count :
                                        ~instance.dronable[e]},
               technician_iter |-> 1,
               drone_paths |-> << >>,
               weight |-> << >>,
               dronable |-> {},
               drone_iter |-> 1,
               overflowed |-> {}]
    /\ class_state = None
    /\ import_call = None
    /\ summary = None
    /\ distances = ScenarioDistances
    /\ IdleSwap
    /\ IdleTabu
    /\ IdleSearch
    /\ IdleMO
    /\ IdleDriver
    /\ IdleEnumeration

\* One turn of the loop of lines 303-307: the next technician path of the
\* cycle takes the nearest customer that only a technician can serve.
ServeTechnicianOnly ==
    /\ construction.pc = "technicians"
    /\ construction.technician_only # {}
    /\ \E index \in construction.technician_only :
          construction' =
              [construction EXCEPT
                  !.technician_paths[construction.technician_iter] =
                      Append(@, index),
                  !.technician_only = @ \ {index},
                  !.technician_iter =
                      CycleNext(@, construction.instance.fleet)]
    /\ UNCHANGED << distances, swapVars, tabuVars, soVars, moVars, driverVars,
                    enumVars, class_state, import_call,
                    summary >>

\* Lines 309-318: the technician paths are closed at the depot and the drone
\* paths, the per-drone totals and the set `dronable` are set up.
CloseTechnicianPaths ==
    /\ construction.pc = "technicians"
    /\ construction.technician_only = {}
    /\ construction' =
           [construction EXCEPT
               !.pc = "drones",
               !.technician_paths =
                   [t \in DOMAIN @ |-> Append(@[t], 0)],
               !.drone_paths =
                   [d \in 1 .. construction.instance.fleet |-> << << 0 >> >>],
               !.weight = [d \in 1 .. construction.instance.fleet |-> 0],
               !.dronable =
                   {e \in 1 .. construction.instance.customers_count :
                        construction.instance.dronable[e]},
               !.drone_iter = 1]
    /\ UNCHANGED << distances, swapVars, tabuVars, soVars, moVars, driverVars,
                    enumVars, class_state, import_call,
                    summary >>

\* One turn of the loop of lines 319-352: the next drone of the cycle takes
\* the nearest dronable customer if it fits; otherwise the drone's trip is
\* closed, a new one is opened and the customer goes to a technician path.
ServeDronable ==
    /\ construction.pc = "drones"
    /\ construction.dronable # {}
    /\ \E index \in construction.dronable, within \in BOOLEAN :
          LET drone == construction.drone_iter
              demand == construction.instance.demands[index]
              next == CycleNext(drone, construction.instance.fleet)
          IN  IF Fits(construction.weight[drone], demand,
                      construction.instance.capacity, within)
              THEN construction' =
                       [construction EXCEPT
                           !.drone_paths[drone] = AppendToLast(@, index),
                           !.weight[drone] = @ + demand,
                           !.dronable = @ \ {index},
                           !.drone_iter = next]
              ELSE \E technician \in DOMAIN construction.technician_paths :
                      construction' =
                          [construction EXCEPT
                              !.drone_paths[drone] =
                                  Append(AppendToLast(@, 0), << 0 >>),
                              !.technician_paths[technician] =
                                  InsertBeforeLast(@, index),
                              !.dronable = @ \ {index},
                              !.drone_iter = next,
                              !.overflowed = @ \cup {index}]
    /\ UNCHANGED << distances, swapVars, tabuVars, soVars, moVars, driverVars,
                    enumVars, class_state, import_call,
                    summary >>

\* Lines 354-360: every drone's last trip is closed and the solution is
\* built from the drone paths and the technician paths that serve somebody.
ReturnInitial ==
    /\ construction.pc = "drones"
    /\ construction.dronable = {}
    /\ construction' =
           [construction EXCEPT
               !.pc = "returned",
               !.drone_paths = [d \in DOMAIN @ |-> AppendToLast(@[d], 0)],
               !.technician_paths =
                   SelectSeq(@, LAMBDA path : Len(path) > 2)]
    /\ UNCHANGED << distances, swapVars, tabuVars, soVars, moVars, driverVars,
                    enumVars, class_state, import_call,
                    summary >>

NextInitial ==
    \/ ServeTechnicianOnly
    \/ CloseTechnicianPaths
    \/ ServeDronable
    \/ ReturnInitial

SpecInitial == InitInitial /\ [][NextInitial]_vars

\* The positions (path, index) of the technician paths that hold `customer`.
TechnicianVisits(customer) ==
    {position \in {<< t, i >> : t \in DOMAIN construction.technician_paths,
                                i \in 1 .. (MaxCustomers + 3)} :
        /\ position[2] \in DOMAIN construction.technician_paths[position[1]]
        /\ construction.technician_paths[position[1]][position[2]] = customer}

\* The drone trips of the solution, as (drone, trip) pairs.
Trips ==
    {trip \in {<< d, t >> : d \in DOMAIN construction.drone_paths,
                            t \in 1 .. (MaxCustomers + 2)} :
        trip[2] \in DOMAIN construction.drone_paths[trip[1]]}

TripPath(trip) == construction.drone_paths[trip[1]][trip[2]]

\* The positions (trip, index) of the drone trips that hold `customer`.
DroneVisits(customer) ==
    {position \in {<< trip, i >> : trip \in Trips,
                                   i \in 1 .. (MaxCustomers + 3)} :
        /\ position[2] \in DOMAIN TripPath(position[1])
        /\ TripPath(position[1])[position[2]] = customer}

RECURSIVE PathDemand(_, _)
\* The total demand of the customers on `path`.
PathDemand(path, demands) ==
    IF path = << >> THEN 0
    ELSE (IF Head(path) = 0 THEN 0 ELSE demands[Head(path)])
         + PathDemand(Tail(path), demands)

\* A path leaves the depot, visits customers only, and ends at the depot.
DepotToDepot(path) ==
    /\ Len(path) >= 2
    /\ path[1] = 0
    /\ path[Len(path)] = 0

\* C21: for every instance with at least one technician, initial() returns
\* a solution in which each customer is visited exactly once over all drone
\* and technician paths, no technician-only customer is on a drone path,
\* every path starts and ends at depot 0, and the demand carried on each
\* drone trip is within the drone's capacity.
C21_InitialIsFeasible ==
    construction.pc = "returned" =>
        /\ \A customer \in 1 .. construction.instance.customers_count :
              /\ Cardinality(TechnicianVisits(customer))
                     + Cardinality(DroneVisits(customer)) = 1
              /\ ~construction.instance.dronable[customer]
                     => DroneVisits(customer) = {}
        /\ \A t \in DOMAIN construction.technician_paths :
              DepotToDepot(construction.technician_paths[t])
        /\ \A trip \in Trips :
              /\ DepotToDepot(TripPath(trip))
              /\ PathDemand(TripPath(trip), construction.instance.demands)
                     <= construction.instance.capacity

\* A returned solution in which a drone flew a second trip with a customer
\* on it after a customer that did not fit went to a technician.
C21_Witness ==
    /\ construction.pc = "returned"
    /\ construction.overflowed # {}
    /\ \E trip \in Trips : trip[2] >= 2 /\ Len(TripPath(trip)) > 2
    /\ \E customer \in 1 .. construction.instance.customers_count :
          ~construction.instance.dronable[customer]

(* ---------------------------- SpecIndicators --------------------------- *)

\* Largest objective value of a solution in a result file.
MaxCoordinate == 5

\* The cost vectors of the solutions the result files hold.
FrontCosts == [1 .. 2 -> 0 .. MaxCoordinate]

\* Reference points: any point of the grid one unit wider than the costs.
ReferencePoints == [1 .. 2 -> 0 .. (MaxCoordinate + 1)]

\* a sorts before b as a tuple: by the first objective, then by the second.
TupleBefore(a, b) == a[1] < b[1] \/ (a[1] = b[1] /\ a[2] <= b[2])

RECURSIVE Sorted(_)
\* sorted(front): the points in increasing tuple order.
Sorted(front) ==
    IF front = {} THEN << >>
    ELSE LET first == CHOOSE a \in front : \A b \in front : TupleBefore(a, b)
         IN  << first >> \o Sorted(front \ {first})

RECURSIVE Strips(_, _, _)
\* The strips accumulated over the sorted points: each point adds the
\* rectangle between itself, the reference point's first coordinate and the
\* second coordinate of the point before it.
Strips(points, ceiling, ref_point) ==
    IF points = << >> THEN 0
    ELSE (ref_point[1] - Head(points)[1]) * (ceiling - Head(points)[2])
         + Strips(Tail(points), Head(points)[2], ref_point)

RECURSIVE HypervolumeOverlapping(_, _)
\* The areas of the rectangles of all points added up, overlaps counted
\* more than once (a mutation of the strip accumulation).
HypervolumeOverlapping(front, ref_point) ==
    IF front = {} THEN 0
    ELSE LET a == CHOOSE a \in front : TRUE
         IN  (ref_point[1] - a[1]) * (ref_point[2] - a[2])
             + HypervolumeOverlapping(front \ {a}, ref_point)

\* The strips measured from the first point on, the strip of the first point
\* itself left out (a mutation of the strip accumulation).
HypervolumeWithoutFirst(front, ref_point) ==
    IF front = {} THEN 0
    ELSE Strips(Tail(Sorted(front)), Sorted(front)[1][2], ref_point)

\* utils.hypervolume(front, ref_point=...): the area of the union of the
\* rectangles spanned by the reference point and each point of the front.
Hypervolume(front, ref_point) ==
    Strips(Sorted(front), ref_point[2], ref_point)

\* hv_ref_point of lines 93-96: the largest value of each objective over
\* the fronts compared.
HvRefPoint(costs) ==
    [i \in 1 .. 2 |->
        CHOOSE m \in {cost[i] : cost \in costs} :
            \A cost \in costs : cost[i] <= m]

\* ref_point is component-wise >= every point of `costs`.
Covers(ref_point, costs) ==
    \A cost \in costs : \A i \in 1 .. 2 : cost[i] <= ref_point[i]

\* A front under construction, empty at first.
InitIndicators ==
    /\ results = {}
    /\ admission = None
    /\ propagate = << >>
    /\ pending = 0
    /\ considered = 0
    /\ tail = None
    /\ distances = ScenarioDistances
    /\ IdleSwap
    /\ IdleTabu
    /\ IdleSearch
    /\ IdleDriver
    /\ IdleEnumeration
    /\ IdleImport

\* One more cost vector is admitted into the front.
AdmitCost ==
    /\ \E candidate \in FrontCosts :
          \E outcome \in {Admit(candidate, results)} :
          /\ results' = outcome.front
          /\ admission' = [candidate |-> candidate, before |-> results,
                           admitted |-> outcome.admitted]
    /\ UNCHANGED << distances, tabuVars, swapVars, soVars, propagate,
                    pending, considered, tail, driverVars, enumVars,
                    importVars >>

NextIndicators == AdmitCost

SpecIndicators == InitIndicators /\ [][NextIndicators]_vars

\* The front of the scenario: (1,5) and (5,1) admitted into an empty front.
ScenarioFront == {<< 1, 5 >>, << 5, 1 >>}

\* C22 as stated: the hypervolume of the front made of (1,5) and (5,1)
\* with reference point (6,6) is exactly 30.
C22_ScenarioHypervolumeIs30 ==
    results = ScenarioFront => Hypervolume(results, << 6, 6 >>) = 30

\* C22 amended: the hypervolume of the front made of (1,5) and (5,1) with
\* reference point (6,6) is exactly 9, the area of the union of the 5x1 and
\* the 1x5 rectangle, which overlap in one unit square.
C22_ScenarioHypervolumeIs9 ==
    results = ScenarioFront => Hypervolume(results, << 6, 6 >>) = 9

\* The second point of the scenario has just been admitted next to the first.
C22_Witness ==
    /\ results = ScenarioFront
    /\ admission.admitted
    /\ Cardinality(admission.before) = 1

\* C23: for every reference point that is component-wise >= every point
\* involved, admitting a point that no front member dominates never
\* decreases the hypervolume of the front.
C23_HypervolumeMonotone ==
    (admission # None /\ admission.admitted) =>
        \A ref_point \in ReferencePoints :
            Covers(ref_point, admission.before \cup {admission.candidate})
                => Hypervolume(results, ref_point)
                       >= Hypervolume(admission.before, ref_point)

\* A point was admitted that pushed members out of a front of two, and the
\* hypervolume grew for the reference point the summary would choose.
C23_Witness ==
    /\ admission # None
    /\ admission.admitted
    /\ Cardinality(admission.before) >= 2
    /\ ~(admission.before \subseteq results)
    /\ LET ref_point == HvRefPoint(admission.before
                                       \cup {admission.candidate})
       IN  Hypervolume(results, ref_point)
               > Hypervolume(admission.before, ref_point)

(* ----------------------------- SpecSummary ----------------------------- *)

\* Files in the summary directory.
MaxFiles == 2

\* Solutions in a result file.
MaxSolutions == 2

\* Largest objective value of a solution in a result file.
MaxObjective == 2

\* Distinct (problem, drone configuration, energy mode) keys of the result
\* files.
MaxKeys == 2

\* The initial entries of `hv` (lines 86-87) and the right operand of `or`
\* (lines 99-100): -1.0.
Sentinel == -1

\* Inverted generational distances are kept in units of 1/IgdScale.
IgdScale == 10

\* -1.0 in the unit of the inverted generational distances.
IgdSentinel == Sentinel * IgdScale

\* The fronts a result file can hold: what a search returned, at most
\* MaxSolutions mutually non-dominated cost vectors, possibly none.
FileFronts ==
    {front \in SUBSET [1 .. 2 -> 0 .. MaxObjective] :
        /\ Cardinality(front) <= MaxSolutions
        /\ NonDominated(front) = front}

\* A file whose name does not start with "output-".
OtherFile == [result |-> FALSE, key |-> 0, front |-> {}]

\* A file of the directory: a result file with the key of its problem,
\* drone configuration and energy mode and its front, or any other file.
FileContents ==
    {OtherFile}
        \cup [result : {TRUE}, key : 1 .. MaxKeys, front : FileFronts]

\* sorted(os.listdir(summary_dir)), line 76, for a directory of n files.
Listings(n) == [1 .. n -> FileContents]

\* x or fallback for a number x: the fallback when x is zero.
OrElse(x, fallback) == IF x = 0 THEN fallback ELSE x

\* The largest r with r * r <= n.
ISqrt(n) ==
    CHOOSE r \in 0 .. (IgdScale * 2 * (MaxObjective + 2)) :
        r * r <= n /\ (r + 1) * (r + 1) > n

\* The Euclidean distance between two cost vectors, in units of 1/IgdScale,
\* rounded down.
Distance(a, b) ==
    ISqrt(((a[1] - b[1]) * (a[1] - b[1]) + (a[2] - b[2]) * (a[2] - b[2]))
              * IgdScale * IgdScale)

\* The distance from a reference point to the nearest point of the front.
MinDistance(ref, front) ==
    CHOOSE d \in {Distance(ref, p) : p \in front} :
        \A p \in front : d <= Distance(ref, p)

RECURSIVE SumMinDistances(_, _)
SumMinDistances(ref_costs, front) ==
    IF ref_costs = {} THEN 0
    ELSE LET ref == CHOOSE r \in ref_costs : TRUE
         IN  MinDistance(ref, front)
                 + SumMinDistances(ref_costs \ {ref}, front)

\* utils.inverted_generational_distance(front, ref_costs=...): the mean,
\* over the reference front, of the distance to the nearest point of the
\* front.
InvertedGenerationalDistance(front, ref_costs) ==
    SumMinDistances(ref_costs, front) \div Cardinality(ref_costs)

\* utils.build_pareto_front(costs): the non-dominated points among them.
BuildParetoFront(costs) == NonDominated(costs)

\* The fronts of the entries of a group.
GroupFronts(entries) == {entries[i][2] : i \in 1 .. Len(entries)}

\* The script has listed the directory.
InitSummary ==
    /\ \E n \in 1 .. MaxFiles : \E files \in Listings(n) :
          summary =
              [pc |-> "loading",
               files |-> files,
               index |-> 1,
               keys |-> << >>,
               fronts |-> [key \in 1 .. MaxKeys |-> << >>],
               hv |-> << >>,
               igd |-> << >>,
               computed |-> [i \in 1 .. Len(files) |-> None],
               hv_ref_point |-> None,
               igd_ref_front |-> {},
               entries |-> << >>,
               rows |-> << >>]
    /\ class_state = None
    /\ import_call = None
    /\ construction = None
    /\ distances = ScenarioDistances
    /\ IdleSwap
    /\ IdleTabu
    /\ IdleSearch
    /\ IdleMO
    /\ IdleDriver
    /\ IdleEnumeration

\* Lines 77-83: one file of the listing; the front of a result file is
\* appended to the group of its key.
LoadFile ==
    /\ summary.pc = "loading"
    /\ summary.index <= Len(summary.files)
    /\ LET file == summary.files[summary.index]
           known == \E i \in 1 .. Len(summary.keys) :
                        summary.keys[i] = file.key
       IN  summary' =
               IF file.result
               THEN [summary EXCEPT
                        !.index = @ + 1,
                        !.keys = IF known THEN @ ELSE Append(@, file.key),
                        !.fronts[file.key] =
                            Append(@, << summary.index, file.front >>)]
               ELSE [summary EXCEPT !.index = @ + 1]
    /\ UNCHANGED << distances, tabuVars, swapVars, soVars, moVars,
                    driverVars, enumVars, class_state, import_call,
                    construction >>

\* Lines 86-87: every file starts with the sentinel in both columns.
AllocateIndicators ==
    /\ summary.pc = "loading"
    /\ summary.index > Len(summary.files)
    /\ summary' =
           [summary EXCEPT
               !.pc = "grouping",
               !.hv = [i \in 1 .. Len(summary.files) |-> Sentinel],
               !.igd = [i \in 1 .. Len(summary.files) |-> IgdSentinel]]
    /\ UNCHANGED << distances, tabuVars, swapVars, soVars, moVars,
                    driverVars, enumVars, class_state, import_call,
                    construction >>

\* Lines 88-97 for a group in which every front has a point: the reference
\* point and the reference front of the group.
EnterGroup ==
    /\ summary.pc = "grouping"
    /\ summary.keys # << >>
    /\ LET pareto_fronts == summary.fronts[Head(summary.keys)]
           costs == UNION GroupFronts(pareto_fronts)
       IN  /\ {} \notin GroupFronts(pareto_fronts)
           /\ summary' =
                  [summary EXCEPT
                      !.pc = "computing",
                      !.keys = Tail(@),
                      !.hv_ref_point = HvRefPoint(costs),
                      !.igd_ref_front = BuildParetoFront(costs),
                      !.entries = pareto_fronts]
    /\ UNCHANGED << distances, tabuVars, swapVars, soVars, moVars,
                    driverVars, enumVars, class_state, import_call,
                    construction >>

\* Lines 93-96 for a group with an empty front: max() of an empty sequence
\* raises ValueError and the script ends.
RaiseOnEmptyFront ==
    /\ summary.pc = "grouping"
    /\ summary.keys # << >>
    /\ {} \in GroupFronts(summary.fronts[Head(summary.keys)])
    /\ summary' = [summary EXCEPT !.pc = "raised"]
    /\ UNCHANGED << distances, tabuVars, swapVars, soVars, moVars,
                    driverVars, enumVars, class_state, import_call,
                    construction >>

\* Lines 98-100: the two indicators of one front of the group.
ComputeIndicators ==
    /\ summary.pc = "computing"
    /\ summary.entries # << >>
    /\ LET index == Head(summary.entries)[1]
           front == Head(summary.entries)[2]
       IN  \E hypervolume \in {Hypervolume(front, summary.hv_ref_point)},
              distance \in {InvertedGenerationalDistance(
                                front, summary.igd_ref_front)} :
              summary' =
                  [summary EXCEPT
                      !.hv[index] = OrElse(hypervolume, Sentinel),
                      !.igd[index] = OrElse(distance, IgdSentinel),
                      !.computed[index] =
                          [hv |-> hypervolume, igd |-> distance],
                      !.entries = Tail(@),
                      !.pc = IF Tail(summary.entries) = << >>
                                 THEN "grouping" ELSE "computing"]
    /\ UNCHANGED << distances, tabuVars, swapVars, soVars, moVars,
                    driverVars, enumVars, class_state, import_call,
                    construction >>

\* Lines 103-124: all groups are done; the table is opened.
OpenTable ==
    /\ summary.pc = "grouping"
    /\ summary.keys = << >>
    /\ summary' = [summary EXCEPT !.pc = "writing", !.index = 1]
    /\ UNCHANGED << distances, tabuVars, swapVars, soVars, moVars,
                    driverVars, enumVars, class_state, import_call,
                    construction >>

\* Lines 127-148: the row of one file, written for result files only.
WriteRow ==
    /\ summary.pc = "writing"
    /\ summary.index <= Len(summary.files)
    /\ LET index == summary.index
           row == [index |-> index,
                   hv |-> summary.hv[index],
                   igd |-> summary.igd[index]]
       IN  summary' =
               [summary EXCEPT
                   !.index = @ + 1,
                   !.rows = IF summary.files[index].result
                                THEN Append(@, row) ELSE @,
                   !.pc = IF index = Len(summary.files)
                              THEN "done" ELSE "writing"]
    /\ UNCHANGED << distances, tabuVars, swapVars, soVars, moVars,
                    driverVars, enumVars, class_state, import_call,
                    construction >>

NextSummary ==
    \/ LoadFile
    \/ AllocateIndicators
    \/ EnterGroup
    \/ RaiseOnEmptyFront
    \/ ComputeIndicators
    \/ OpenTable
    \/ WriteRow

SpecSummary == InitSummary /\ [][NextSummary]_vars

\* C31: a row of the summary holds the sentinel -1 in a column only when the
\* indicator was not computed for the run, and a run whose indicator was
\* computed, 0 included, is reported with the computed value.
C31_SentinelOnlyWhenNotComputed ==
    \A i \in 1 .. Len(summary.rows) :
        LET row == summary.rows[i]
            computed == summary.computed[row.index]
        IN  /\ (row.hv = Sentinel \/ row.igd = IgdSentinel)
                   => computed = None
            /\ computed # None
                   => row.hv = computed.hv /\ row.igd = computed.igd

=============================================================================
